---- MODULE Spec2Model ----
(***************************************************************************)
(* Model of the operation-sequence splitter:                               *)
(*   - OperationSequenceSplitter._parse_to_new_format (splitter.py), the   *)
(*     line-by-line parser of the generation backend's response;           *)
(*   - KnowledgeBase.load and its queries (knowledge_base.py);             *)
(*   - the record _parse_to_new_format returns, _build_prompt and the two   *)
(*     split methods of OperationSequenceSplitter (splitter.py).            *)
(*                                                                         *)
(* A Python str is a sequence of one-character strings.  The two CJK       *)
(* characters of the step marker U+6B65 U+9AA4 are written "BU" and "ZHOU" *)
(* (each is one character of the text).                                    *)
(***************************************************************************)
EXTENDS Integers, Sequences, FiniteSets, TLC

VARIABLES
    \* ---- _parse_to_new_format -------------------------------------------
    input_lines,          \* the lines the response text is written from
    text_result,          \* parameter text_result
    operation_sequence,   \* parameter operation_sequence
    lines,                \* local lines
    line_no,              \* position of the for loop in lines (1-based)
    current_description,  \* local current_description (a list of str)
    step_counter,         \* local step_counter
    substeps,             \* local substeps (a list of step records)
    pc,                   \* position in _parse_to_new_format
    \* ---- KnowledgeBase -------------------------------------------------
    json_files,           \* the directory's *.json files, in listing order
    file_no,              \* position of the for loop of load in json_files
    operations,           \* self.operations: operation_id -> operation_data
    operations_by_name,   \* self.operations_by_name: operation_name -> operation_id
    loaded_count,         \* local loaded_count of load
    kb_pc,                \* position in KnowledgeBase.__init__ / load
    kb_call,              \* the last query made, with what it returned
    \* ---- OperationSequenceSplitter and its caller -------------------------
    path_kind,            \* what knowledge_base_path names on disk
    entry_point,          \* the method the caller entered
    include_context,      \* parameter include_context
    output_filename,      \* parameter output_filename
    prompt,               \* the last call of _build_prompt, with what it returned
    previous_prompt,      \* the call of _build_prompt before that
    generate_calls,       \* calls of llm_client.generate made so far
    now,                  \* the system clock, in seconds
    record,               \* the dict _parse_to_new_format returned
    previous_record,      \* the dict returned by the call before
    output_path,          \* parameter output_path of split_to_new_format_file
    disk,                 \* the directories made and the files written
    written,              \* what the call in progress wrote to its file
    args_output,          \* main: the value of the option -o
    operation_sequences,  \* main: the operation strings read from the input
    item_no,              \* main: i of the batch loop
    main_pc               \* main: where the command is

parse_vars == <<input_lines, text_result, operation_sequence, lines, line_no,
                current_description, step_counter, substeps, pc>>

kb_vars == <<json_files, file_no, operations, operations_by_name, loaded_count,
             kb_pc, kb_call>>

split_vars == <<path_kind, entry_point, include_context, output_filename, prompt,
                previous_prompt, generate_calls, now, record, previous_record,
                output_path, disk, written>>

main_vars == <<args_output, operation_sequences, item_no, main_pc>>

vars == <<parse_vars, kb_vars, split_vars, main_vars>>

----------------------------------------------------------------------------
(* Bounds *)

\* longest response, in lines
MaxLines == 3

\* most *.json files in the knowledge-base directory
MaxFiles == 2

\* most seconds the clock advances during a run
MaxTicks == 1

\* most calls of split_to_new_format in a run
MaxCalls == 2

\* how many lines a batch input file has at most
MaxItems == 3

----------------------------------------------------------------------------
(* str helpers *)

\* characters removed by str.strip()
WS == {" ", "\t", "\n"}

RECURSIVE LStrip(_)
LStrip(s) ==
    IF s # <<>> /\ Head(s) \in WS THEN LStrip(Tail(s)) ELSE s

RECURSIVE RStrip(_)
RStrip(s) ==
    IF s # <<>> /\ s[Len(s)] \in WS THEN RStrip(SubSeq(s, 1, Len(s) - 1)) ELSE s

\* str.strip()
Strip(s) ==
    RStrip(LStrip(s))

\* index of the first occurrence of character c in s, 0 when absent
IndexOf(s, c) ==
    IF \E i \in 1..Len(s) : s[i] = c
    THEN CHOOSE i \in 1..Len(s) : s[i] = c /\ \A j \in 1..(i - 1) : s[j] # c
    ELSE 0

RECURSIVE SplitLines(_)
\* text_result.split("\n")
SplitLines(s) ==
    LET i == IndexOf(s, "\n")
    IN  IF i = 0 THEN <<s>>
        ELSE <<SubSeq(s, 1, i - 1)>> \o SplitLines(SubSeq(s, i + 1, Len(s)))

\* a plausible slip: split at the last colon
SplitLastColon(line) ==
    IF IndexOf(line, ":") = 0 THEN <<line>>
    ELSE LET i == CHOOSE k \in 1..Len(line) :
                      line[k] = ":" /\ \A j \in (k + 1)..Len(line) : line[j] # ":"
         IN  <<SubSeq(line, 1, i - 1), SubSeq(line, i + 1, Len(line))>>

\* line.split(":", 1)
SplitColon(line) ==
    LET i == IndexOf(line, ":")
    IN  IF i = 0 THEN <<line>>
        ELSE <<SubSeq(line, 1, i - 1), SubSeq(line, i + 1, Len(line))>>

\* s.startswith(p)
StartsWith(s, p) ==
    Len(s) >= Len(p) /\ SubSeq(s, 1, Len(p)) = p

DigitChars == <<"0", "1", "2", "3", "4", "5", "6", "7", "8", "9">>

\* c.isdigit(), for the ASCII digits
IsDigit(c) ==
    \E i \in 1..Len(DigitChars) : DigitChars[i] = c

\* the marker U+6B65 U+9AA4
BuZhou == <<"BU", "ZHOU">>

StepWord == <<"S", "t", "e", "p">>

\* a plausible slip: a leading digit is no marker
IsStepStartNoDigit(line) ==
    \/ StartsWith(line, BuZhou)
    \/ StartsWith(line, StepWord)

\* the step-start test of the loop, on a stripped line
IsStepStart(line) ==
    \/ StartsWith(line, BuZhou)
    \/ StartsWith(line, StepWord)
    \/ (line # <<>> /\ IsDigit(line[1]))

RECURSIVE JoinNoSeparator(_)
\* a plausible slip: "".join(parts)
JoinNoSeparator(parts) ==
    IF parts = <<>> THEN <<>> ELSE Head(parts) \o JoinNoSeparator(Tail(parts))

RECURSIVE Join(_)
\* " ".join(parts)
Join(parts) ==
    IF parts = <<>> THEN <<>>
    ELSE IF Len(parts) = 1 THEN parts[1]
    ELSE parts[1] \o <<" ">> \o Join(Tail(parts))

RECURSIVE Decimal(_)
\* the decimal digits of n >= 0
Decimal(n) ==
    IF n < 10 THEN <<DigitChars[n + 1]>>
    ELSE Decimal(n \div 10) \o <<DigitChars[(n % 10) + 1]>>

\* a plausible slip: no zero padding
PadNone(n) ==
    Decimal(n)

\* f"{n:03d}"
Pad3(n) ==
    LET d == Decimal(n)
    IN  IF Len(d) >= 3 THEN d ELSE [i \in 1..(3 - Len(d)) |-> "0"] \o d

\* f"step_{n:03d}"
StepId(n) ==
    <<"s", "t", "e", "p", "_">> \o Pad3(n)

\* the step record appended to substeps
MakeStep(desc, n) ==
    [subtype |-> "action", description |-> desc, id |-> StepId(n),
     type |-> "operation"]

\* " ".join(current_description).strip()
AccDescription(cd) ==
    Strip(Join(cd))

\* a plausible slip: the fallback takes the stripped operation text
FallbackStripped(text, op) ==
    IF Strip(text) # <<>> THEN Strip(text) ELSE Strip(op)

\* text_result.strip() or operation_sequence
FallbackDescription(text, op) ==
    IF Strip(text) # <<>> THEN Strip(text) ELSE op

----------------------------------------------------------------------------
(* Inputs of the parser *)

RECURSIVE JoinNL(_)
\* a text written as the given lines, one "\n" between two lines
JoinNL(ls) ==
    IF ls = <<>> THEN <<>>
    ELSE IF Len(ls) = 1 THEN ls[1]
    ELSE ls[1] \o <<"\n">> \o JoinNL(Tail(ls))

\* numbers written after the marker
StepNums == {<<"1">>, <<"2">>}

\* descriptions: non-empty, no surrounding whitespace
Bodies == {<<"a">>, <<"b", " ", "c">>, <<"d", ":", "e">>}

\* lines of the form  U+6B65 U+9AA4 k ": " d
FormLines ==
    {BuZhou \o k \o <<":", " ">> \o d : k \in StepNums, d \in Bodies}

OtherLines ==
    { <<>>,                                            \* blank
      <<" ", "\t">>,                                   \* whitespace only
      BuZhou \o <<"1", ":">>,                          \* marker, nothing after the colon
      <<" ">> \o StepWord \o <<" ", "3", ":", "f", " ">>, \* "Step 3:f" with whitespace around
      <<"2", ".", "g">>,                               \* digit start, no colon
      <<" ", "h", " ">>,                               \* no marker, whitespace around
      <<"i", ":", "j">>,                               \* no marker, a colon
      <<"BU", "k">> }                                  \* only the first marker character

InputLineSet == FormLines \cup OtherLines

SeqsUpTo(S, n) ==
    UNION {[1..k -> S] : k \in 0..n}

OperationTexts == {<<>>, <<"o", "p">>, <<" ", "q">>}

----------------------------------------------------------------------------
(* _parse_to_new_format *)

\* the clock at the start of a run: one second before a minute ends
ClockStarts == {59}

\* output_filename is None
NoFilename == <<"<None>">>

\* no call of _build_prompt yet
NoPrompt == [called |-> FALSE]

\* the command main is not run
MainIdle ==
    /\ args_output = NoFilename
    /\ operation_sequences = <<>>
    /\ item_no = 0
    /\ main_pc = "idle"

\* nothing made or written by the splitter yet
NoWrites == [dirs |-> {}, files |-> {}]

\* no file is open for writing
NoText == [none |-> TRUE]

\* the splitter's caller before any call of split_to_new_format or
\* _parse_to_new_format
SplitIdle ==
    /\ path_kind = "dir"
    /\ entry_point = "none"
    /\ include_context = TRUE
    /\ output_filename = NoFilename
    /\ prompt = NoPrompt
    /\ previous_prompt = NoPrompt
    /\ generate_calls = 0
    /\ now \in ClockStarts
    /\ record = [none |-> TRUE]
    /\ previous_record = [none |-> TRUE]
    /\ output_path = NoFilename
    /\ disk = NoWrites
    /\ written = NoText

\* the knowledge base before __init__ is called, while the parser runs
KBIdle ==
    /\ json_files = <<>>
    /\ file_no = 0
    /\ operations = <<>>
    /\ operations_by_name = <<>>
    /\ loaded_count = 0
    /\ kb_pc = "idle"
    /\ kb_call = [op |-> "none"]

InitParse ==
    /\ input_lines \in SeqsUpTo(InputLineSet, MaxLines)
    /\ text_result = JoinNL(input_lines)
    /\ operation_sequence \in OperationTexts
    /\ lines = <<>>
    /\ line_no = 0
    /\ current_description = <<>>
    /\ step_counter = 0
    /\ substeps = <<>>
    /\ pc = "call"
    /\ KBIdle
    /\ SplitIdle
    /\ MainIdle

\* a plausible slip: the steps of an earlier call are kept
ParseBeginKeepsSteps ==
    /\ pc = "call"
    /\ lines' = SplitLines(text_result)
    /\ current_description' = <<>>
    /\ line_no' = 1
    /\ step_counter' = IF step_counter = 0 THEN 1 ELSE step_counter
    /\ pc' = "loop"
    /\ UNCHANGED <<input_lines, text_result, operation_sequence, substeps>>
    /\ UNCHANGED <<kb_vars, split_vars, main_vars>>

\* substeps = [] ... step_counter = 1
ParseBegin ==
    /\ pc = "call"
    /\ substeps' = <<>>
    /\ lines' = SplitLines(text_result)
    /\ current_description' = <<>>
    /\ step_counter' = 1
    /\ line_no' = 1
    /\ pc' = "loop"
    /\ UNCHANGED <<input_lines, text_result, operation_sequence>>
    /\ UNCHANGED <<kb_vars, split_vars, main_vars>>

\* one iteration of the loop: a blank line
SkipBlank ==
    /\ pc = "loop"
    /\ line_no <= Len(lines)
    /\ Strip(lines[line_no]) = <<>>
    /\ line_no' = line_no + 1
    /\ UNCHANGED <<input_lines, text_result, operation_sequence, lines,
                   current_description, step_counter, substeps, pc>>
    /\ UNCHANGED <<kb_vars, split_vars, main_vars>>

\* a plausible slip: the text after the colon is not stripped
StepStartUntrimmed ==
    /\ pc = "loop"
    /\ line_no <= Len(lines)
    /\ LET line == Strip(lines[line_no])
           parts == SplitColon(line)
       IN  /\ line # <<>>
           /\ IsStepStart(line)
           /\ IF current_description # <<>>
              THEN /\ substeps' = Append(substeps,
                          MakeStep(AccDescription(current_description), step_counter))
                   /\ step_counter' = step_counter + 1
              ELSE UNCHANGED <<substeps, step_counter>>
           /\ current_description' =
                  IF Len(parts) = 2 THEN <<parts[2]>> ELSE <<line>>
    /\ line_no' = line_no + 1
    /\ UNCHANGED <<input_lines, text_result, operation_sequence, lines, pc>>
    /\ UNCHANGED <<kb_vars, split_vars, main_vars>>

\* one iteration of the loop: a line that starts a step
StepStart ==
    /\ pc = "loop"
    /\ line_no <= Len(lines)
    /\ LET line == Strip(lines[line_no])
           parts == SplitColon(line)
       IN  /\ line # <<>>
           /\ IsStepStart(line)
           /\ IF current_description # <<>>
              THEN /\ substeps' = Append(substeps,
                          MakeStep(AccDescription(current_description), step_counter))
                   /\ step_counter' = step_counter + 1
              ELSE UNCHANGED <<substeps, step_counter>>
           /\ current_description' =
                  IF Len(parts) = 2 THEN <<Strip(parts[2])>> ELSE <<line>>
    /\ line_no' = line_no + 1
    /\ UNCHANGED <<input_lines, text_result, operation_sequence, lines, pc>>
    /\ UNCHANGED <<kb_vars, split_vars, main_vars>>

\* a plausible slip: a line without marker closes the step and opens another
ContinuationOpensStep ==
    /\ pc = "loop"
    /\ line_no <= Len(lines)
    /\ LET line == Strip(lines[line_no])
       IN  /\ line # <<>>
           /\ ~IsStepStart(line)
           /\ IF current_description # <<>>
              THEN /\ substeps' = Append(substeps,
                          MakeStep(AccDescription(current_description), step_counter))
                   /\ step_counter' = step_counter + 1
              ELSE UNCHANGED <<substeps, step_counter>>
           /\ current_description' = <<line>>
    /\ line_no' = line_no + 1
    /\ UNCHANGED <<input_lines, text_result, operation_sequence, lines, pc>>
    /\ UNCHANGED <<kb_vars, split_vars, main_vars>>

\* one iteration of the loop: a line that does not start a step
Continuation ==
    /\ pc = "loop"
    /\ line_no <= Len(lines)
    /\ LET line == Strip(lines[line_no])
       IN  /\ line # <<>>
           /\ ~IsStepStart(line)
           /\ current_description' =
                  IF current_description # <<>>
                  THEN Append(current_description, line)
                  ELSE IF substeps = <<>> THEN <<line>>
                  ELSE current_description
    /\ line_no' = line_no + 1
    /\ UNCHANGED <<input_lines, text_result, operation_sequence, lines,
                   step_counter, substeps, pc>>
    /\ UNCHANGED <<kb_vars, split_vars, main_vars>>

\* after the loop: the last step is saved, or the default step is made
ParseFinish ==
    /\ pc = "loop"
    /\ line_no > Len(lines)
    /\ LET saved == IF current_description # <<>>
                    THEN Append(substeps,
                           MakeStep(AccDescription(current_description), step_counter))
                    ELSE substeps
       IN  substeps' =
               IF saved = <<>>
               THEN <<[subtype |-> "action",
                       description |-> FallbackDescription(text_result, operation_sequence),
                       id |-> <<"s", "t", "e", "p", "_", "0", "0", "1">>,
                       type |-> "operation"]>>
               ELSE saved
    /\ pc' = "parsed"
    /\ UNCHANGED <<input_lines, text_result, operation_sequence, lines, line_no,
                   current_description, step_counter>>
    /\ UNCHANGED <<kb_vars, split_vars, main_vars>>

NextParse ==
    \/ ParseBegin
    \/ SkipBlank
    \/ StepStart
    \/ Continuation
    \/ ParseFinish

----------------------------------------------------------------------------
(* _parse_to_new_format, lines 227-277: the record *)

\* the day of the run, as %Y, %m and %d print it
YearChars == <<"2", "0", "2", "6">>

MonthChars == <<"1", "1">>

DayChars == <<"0", "4">>

\* a number below 100 as %H, %M and %S print it
TwoDigits(n) ==
    <<DigitChars[(n \div 10) + 1], DigitChars[(n % 10) + 1]>>

\* %H, %M and %S of the clock value t, seconds since midnight
HourChars(t) ==
    TwoDigits(t \div 3600)

MinuteChars(t) ==
    TwoDigits((t \div 60) % 60)

SecondChars(t) ==
    TwoDigits(t % 60)

\* strftime("%Y-%m-%dT%H:%M:%S")
StrftimeIso(t) ==
    YearChars \o <<"-">> \o MonthChars \o <<"-">> \o DayChars \o <<"T">>
    \o HourChars(t) \o <<":">> \o MinuteChars(t) \o <<":">> \o SecondChars(t)

\* strftime('%Y%m%d_%H%M%S')
StrftimeUnderscore(t) ==
    YearChars \o MonthChars \o DayChars \o <<"_">>
    \o HourChars(t) \o MinuteChars(t) \o SecondChars(t)

\* a plausible slip: the format stops at the day
StrftimeDateOnly(t) ==
    YearChars \o MonthChars \o DayChars

\* strftime('%Y%m%d%H%M%S')
StrftimeCompact(t) ==
    YearChars \o MonthChars \o DayChars
    \o HourChars(t) \o MinuteChars(t) \o SecondChars(t)

DotJson == <<".", "j", "s", "o", "n">>

\* s.endswith(suffix)
EndsWith(s, suffix) ==
    Len(s) >= Len(suffix) /\ SubSeq(s, Len(s) - Len(suffix) + 1, Len(s)) = suffix

\* a plausible slip: the given name is used as it is
OutputFilenameAsGiven(given, t) ==
    IF given = NoFilename
    THEN <<"o", "u", "t", "p", "u", "t", "_">> \o StrftimeUnderscore(t) \o DotJson
    ELSE given

\* output_filename after lines 231-234; t is the clock read at line 232
OutputFilename(given, t) ==
    IF given = NoFilename
    THEN <<"o", "u", "t", "p", "u", "t", "_">> \o StrftimeUnderscore(t) \o DotJson
    ELSE IF ~EndsWith(given, DotJson) THEN given \o DotJson
    ELSE given

\* the four characters of the placeholder U+64CD U+4F5C U+5E8F U+5217
Placeholder == <<"CAO", "ZUO", "XU", "LIE">>

\* a plausible slip: no placeholder
OrPlaceholderNever(text) ==
    text

\* operation_sequence or <placeholder>: the empty str is false
OrPlaceholder(text) ==
    IF text = <<>> THEN Placeholder ELSE text

\* the dict returned at lines 237-277 (the fields that are always empty are
\* left out); t1..t4 are the four clock reads, in the order they are made
NewFormat(subs, operation, given, t1, t2, t3, t4) ==
    LET filename == OutputFilename(given, t2)
    IN  [chunk_id |-> <<"c", "h", "u", "n", "k", "_">> \o StrftimeCompact(t3),
         def |-> [substep |-> subs,
                  context |-> operation,
                  current_main_step |->
                      [subtype |-> "main",
                       description |-> OrPlaceholder(operation),
                       id |-> "main_step_001",
                       type |-> "main_operation"],
                  source |-> filename,
                  id |-> <<"o", "p", "e", "r", "a", "t", "i", "o", "n", "_">>
                             \o StrftimeCompact(t4),
                  operation |-> OrPlaceholder(operation)],
         filename |-> filename,
         from |-> "splitter",
         meta_data |-> [source |-> filename, mtime |-> StrftimeIso(t1)],
         uri |-> <<"f", "i", "l", "e", ":", "/", "/", "/">> \o filename]

\* the last value of the clock in a run
ClockEnd ==
    (CHOOSE c \in ClockStarts : TRUE) + MaxTicks

\* a plausible slip: the generated record is put into the knowledge base
ParseReturnStoresRecord ==
    /\ pc = "parsed"
    /\ \E t1, t2, t3, t4 \in now..ClockEnd :
          /\ t1 <= t2 /\ t2 <= t3 /\ t3 <= t4
          /\ (output_filename # NoFilename) => (t2 = t1)
          /\ record' = NewFormat(substeps, operation_sequence, output_filename,
                                 t1, t2, t3, t4)
          /\ now' = t4
    /\ operations' = Append(operations, [key |-> "generated", value |-> record'])
    /\ pc' = "returned"
    /\ UNCHANGED <<input_lines, text_result, operation_sequence, lines, line_no,
                   current_description, step_counter, substeps>>
    /\ UNCHANGED <<path_kind, entry_point, include_context, output_filename,
                   prompt, previous_prompt, generate_calls, previous_record,
                   output_path, disk, written, main_vars>>
    /\ UNCHANGED <<json_files, file_no, operations_by_name, loaded_count,
                   kb_pc, kb_call>>

\* lines 227-277: the clock is read up to four times, and may advance
\* between two reads
ParseReturn ==
    /\ pc = "parsed"
    /\ \E t1, t2, t3, t4 \in now..ClockEnd :
          /\ t1 <= t2 /\ t2 <= t3 /\ t3 <= t4
          /\ (output_filename # NoFilename) => (t2 = t1)
          /\ record' = NewFormat(substeps, operation_sequence, output_filename,
                                 t1, t2, t3, t4)
          /\ now' = t4
    /\ pc' = "returned"
    /\ UNCHANGED <<input_lines, text_result, operation_sequence, lines, line_no,
                   current_description, step_counter, substeps>>
    /\ UNCHANGED <<path_kind, entry_point, include_context, output_filename,
                   prompt, previous_prompt, generate_calls, previous_record,
                   output_path, disk, written, main_vars>>
    /\ UNCHANGED kb_vars

\* the caller calls _parse_to_new_format once more with the same arguments
ParseAgain ==
    /\ pc = "returned"
    /\ entry_point = "_parse_to_new_format"
    /\ previous_record = [none |-> TRUE]
    /\ previous_record' = record
    /\ pc' = "call"
    /\ UNCHANGED <<input_lines, text_result, operation_sequence, lines, line_no,
                   current_description, step_counter, substeps>>
    /\ UNCHANGED <<path_kind, entry_point, include_context, output_filename,
                   prompt, previous_prompt, generate_calls, now, record,
                   output_path, disk, written, main_vars>>
    /\ UNCHANGED kb_vars

\* lines of the responses the record is built from
RecordLineSet ==
    {<<>>, BuZhou \o <<"1", ":", " ", "a">>, <<" ", "h", " ">>}

\* values of the parameter output_filename
OutputFilenames ==
    {NoFilename, <<"r">> \o DotJson, <<"r">>, <<>>, <<"r", ".", "j", "s">>}

\* a direct call of _parse_to_new_format(text_result, operation_sequence,
\* output_filename)
InitRecord ==
    /\ input_lines \in SeqsUpTo(RecordLineSet, 2)
    /\ text_result = JoinNL(input_lines)
    /\ operation_sequence \in OperationTexts
    /\ lines = <<>>
    /\ line_no = 0
    /\ current_description = <<>>
    /\ step_counter = 0
    /\ substeps = <<>>
    /\ pc = "call"
    /\ KBIdle
    /\ path_kind = "dir"
    /\ entry_point = "_parse_to_new_format"
    /\ include_context = TRUE
    /\ output_filename \in OutputFilenames
    /\ prompt = NoPrompt
    /\ previous_prompt = NoPrompt
    /\ generate_calls = 0
    /\ now \in ClockStarts
    /\ record = [none |-> TRUE]
    /\ previous_record = [none |-> TRUE]
    /\ output_path = NoFilename
    /\ disk = NoWrites
    /\ written = NoText
    /\ MainIdle

NextRecord ==
    \/ ParseBegin
    \/ SkipBlank
    \/ StepStart
    \/ Continuation
    \/ ParseFinish
    \/ ParseReturn
    \/ ParseAgain

SpecRecord == InitRecord /\ [][NextRecord]_vars


----------------------------------------------------------------------------
(* Python values of the knowledge base *)

\* a JSON value `or` skips: missing key, null, "", 0, [] or {}
Falsy == "<falsy>"

\* a non-empty JSON array or object: true in `or`, TypeError as a dict key
Unhashable == "<unhashable>"

None == [none |-> TRUE]

\* bool(v) of a value taken from a document
Truthy(v) ==
    v # Falsy

\* a or b
Or(a, b) ==
    IF Truthy(a) THEN a ELSE b

\* whether d[v] = ... raises TypeError
Hashable(v) ==
    v # Unhashable

(* A dict is the sequence of its items in insertion order. *)

\* k in d
DictHas(d, k) ==
    \E i \in 1..Len(d) : d[i].key = k

\* d.get(k), with the given default
DictGet(d, k, default) ==
    IF DictHas(d, k)
    THEN d[CHOOSE i \in 1..Len(d) : d[i].key = k].value
    ELSE default

\* a plausible slip: the first document of an id is kept (setdefault)
DictSetDefault(d, k, v) ==
    IF DictHas(d, k) THEN d ELSE Append(d, [key |-> k, value |-> v])

\* d[k] = v
DictSet(d, k, v) ==
    IF DictHas(d, k)
    THEN [i \in 1..Len(d) |-> IF d[i].key = k THEN [key |-> k, value |-> v] ELSE d[i]]
    ELSE Append(d, [key |-> k, value |-> v])

\* list(d.keys())
DictKeys(d) ==
    [i \in 1..Len(d) |-> d[i].key]

----------------------------------------------------------------------------
(* Inputs of the knowledge base: the directory *)

\* base names of the files, by position in the listing
StemNames ==
    <<"f1", "f2", "f3", "f4", "f5", "f6", "f7", "f8", "f9", "f10", "f11",
      "f12", "f13", "f14">>

DefIds == {Falsy, "f2", Unhashable}

\* the top-level "id" and "operation" of a document: both missing, or both set
TopFields == {[id |-> Falsy, operation |-> Falsy], [id |-> "b", operation |-> "m"]}

DefOperations == {Falsy, "n", Unhashable}

\* the free-text fields and the steps of a definition block that has none of
\* them (a missing str field reads as "", a missing step list as [])
NoBody ==
    [context |-> <<>>, scene |-> <<>>, feature |-> <<>>, substep |-> <<>>,
     current_main_step |-> None]

\* what a file holds: text that is not JSON, a JSON value that is no object,
\* an object without a "def" object, or an object with a "def" object
Documents ==
    {[shape |-> sh, def_id |-> Falsy, top_id |-> Falsy,
      def_operation |-> Falsy, top_operation |-> Falsy, body |-> NoBody] :
         sh \in {"decode_error", "not_dict", "no_def"}}
    \cup
    {[shape |-> "new_format", def_id |-> di, top_id |-> top.id,
      def_operation |-> dop, top_operation |-> top.operation, body |-> NoBody] :
         di \in DefIds, top \in TopFields, dop \in DefOperations}

\* the listings of a directory of n files (file names are distinct), each
\* file holding one of the documents D
DirectoriesOf(D, n) ==
    {[k \in 1..n |-> [stem |-> StemNames[k], doc |-> docs[k]]] :
         docs \in [1..n -> D]}

Directories(n) ==
    DirectoriesOf(Documents, n)

\* json_file.name
FileName(f) ==
    <<f.stem, ".json">>

\* operation_data after lines 67-68
OperationData(f) ==
    [def |-> [id |-> f.doc.def_id, operation |-> f.doc.def_operation,
              context |-> f.doc.body.context, scene |-> f.doc.body.scene,
              feature |-> f.doc.body.feature, substep |-> f.doc.body.substep,
              current_main_step |-> f.doc.body.current_main_step],
     id |-> f.doc.top_id,
     operation |-> f.doc.top_operation,
     _filename |-> FileName(f)]

\* a plausible slip: the top-level id is taken before the definition block's
OperationIdTopFirst(f) ==
    LET operation_id == Or(Or(f.doc.top_id, f.doc.def_id), f.stem)
    IN  IF ~Truthy(operation_id) THEN f.stem ELSE operation_id

\* operation_id after lines 58-62
OperationId(f) ==
    LET operation_id == Or(Or(f.doc.def_id, f.doc.top_id), f.stem)
    IN  IF ~Truthy(operation_id) THEN f.stem ELSE operation_id

\* operation_name after lines 59-64
OperationName(f) ==
    LET operation_name ==
            Or(Or(f.doc.def_operation, f.doc.top_operation),
               Or(Or(f.doc.def_id, f.doc.top_id), f.stem))
    IN  IF ~Truthy(operation_name) THEN OperationId(f) ELSE operation_name

\* names asked of get_operation_by_name
QueryNames == {"n", "m", "f1", "f2", "b", "Ab", "absent"}

(* Documents whose definition block carries text and steps.  A name is a
   dictionary key and stays an atom; NameChars gives its characters.  The
   other texts are sequences of characters. *)

NameChars ==
    ("Ab" :> <<"A", "b">>) @@ ("b" :> <<"b">>)

\* def_data.get("operation", "") as text: a missing name reads as ""
NameText(v) ==
    IF v = Falsy THEN <<>> ELSE NameChars[v]

\* a step of a document: a dict with a description, or a JSON value that is
\* no dict
DocStep(d) ==
    [is_dict |-> TRUE, description |-> d]

NonDictStep ==
    [is_dict |-> FALSE, description |-> <<>>]

QueryDocuments ==
    { [shape |-> "new_format", def_id |-> Falsy, top_id |-> Falsy,
       def_operation |-> "Ab", top_operation |-> Falsy,
       body |-> [context |-> <<"B", "c">>, scene |-> <<>>, feature |-> <<>>,
                 substep |-> <<DocStep(<<"x">>), DocStep(<<"y">>),
                               DocStep(<<"z">>), DocStep(<<"w">>)>>,
                 current_main_step |-> DocStep(<<"x">>)]],
      [shape |-> "new_format", def_id |-> Falsy, top_id |-> Falsy,
       def_operation |-> "b", top_operation |-> Falsy,
       body |-> [context |-> <<>>, scene |-> <<"a", "B">>, feature |-> <<"c">>,
                 substep |-> <<>>, current_main_step |-> None]],
      [shape |-> "new_format", def_id |-> Falsy, top_id |-> "b",
       def_operation |-> Falsy, top_operation |-> "m",
       body |-> [context |-> <<"A">>, scene |-> <<>>, feature |-> <<>>,
                 substep |-> <<DocStep(<<>>), NonDictStep, DocStep(<<"y">>)>>,
                 current_main_step |-> None]],
      [shape |-> "new_format", def_id |-> "f2", top_id |-> Falsy,
       def_operation |-> "Ab", top_operation |-> Falsy,
       body |-> [context |-> <<>>, scene |-> <<>>, feature |-> <<"A", "b">>,
                 substep |-> <<DocStep(<<"x">>)>>,
                 current_main_step |-> None]],
      [shape |-> "new_format", def_id |-> Falsy, top_id |-> Falsy,
       def_operation |-> Falsy, top_operation |-> Falsy, body |-> NoBody] }

\* keywords and categories asked of the searches
Keywords ==
    {<<>>, <<"a">>, <<"B">>, <<"a", "b">>, <<"b", "c">>, <<"C">>, <<"z">>}

----------------------------------------------------------------------------
(* str operations of the queries *)

LowerChar(c) ==
    CASE c = "A" -> "a"
      [] c = "B" -> "b"
      [] c = "C" -> "c"
      [] OTHER -> c

\* s.lower()
Lower(s) ==
    [i \in 1..Len(s) |-> LowerChar(s[i])]

\* a plausible slip: only a prefix counts as a match
ContainsAtStart(k, s) ==
    Len(k) <= Len(s) /\ SubSeq(s, 1, Len(k)) = k

\* k in s
Contains(k, s) ==
    \E i \in 0..(Len(s) - Len(k)) : SubSeq(s, i + 1, i + Len(k)) = k

\* s[:n], for n >= 0
Take(s, n) ==
    SubSeq(s, 1, IF n < Len(s) THEN n ELSE Len(s))

RECURSIVE JoinWith(_, _)
\* sep.join(parts)
JoinWith(parts, sep) ==
    IF parts = <<>> THEN <<>>
    ELSE IF Len(parts) = 1 THEN parts[1]
    ELSE parts[1] \o sep \o JoinWith(Tail(parts), sep)

----------------------------------------------------------------------------
(* KnowledgeBase.__init__, load and queries *)

\* the parser before it is called, while the knowledge base loads
ParseIdle ==
    /\ input_lines = <<>>
    /\ text_result = <<>>
    /\ operation_sequence = <<>>
    /\ lines = <<>>
    /\ line_no = 0
    /\ current_description = <<>>
    /\ step_counter = 0
    /\ substeps = <<>>
    /\ pc = "idle"

InitKB ==
    /\ json_files \in UNION {Directories(n) : n \in 0..MaxFiles}
    /\ file_no = 0
    /\ operations = <<>>
    /\ operations_by_name = <<>>
    /\ loaded_count = 0
    /\ kb_pc = "load"
    /\ kb_call = [op |-> "none"]
    /\ ParseIdle
    /\ SplitIdle
    /\ MainIdle

\* load, up to the loop: no *.json file raises ValueError
LoadBegin ==
    /\ kb_pc = "load"
    /\ IF json_files = <<>>
       THEN kb_pc' = "ValueError" /\ UNCHANGED <<file_no, loaded_count>>
       ELSE kb_pc' = "loop" /\ file_no' = 1 /\ loaded_count' = 0
    /\ UNCHANGED <<json_files, operations, operations_by_name, kb_call>>
    /\ UNCHANGED <<parse_vars, split_vars, main_vars>>

\* one iteration: json.load raises JSONDecodeError, caught at line 76
LoadFileDecodeError ==
    /\ kb_pc = "loop"
    /\ file_no <= Len(json_files)
    /\ json_files[file_no].doc.shape = "decode_error"
    /\ file_no' = file_no + 1
    /\ UNCHANGED <<json_files, operations, operations_by_name, loaded_count,
                   kb_pc, kb_call>>
    /\ UNCHANGED <<parse_vars, split_vars, main_vars>>

\* a plausible slip: a document that fails validation ends the loop
LoadFileInvalidBreaks ==
    /\ kb_pc = "loop"
    /\ file_no <= Len(json_files)
    /\ json_files[file_no].doc.shape \in {"not_dict", "no_def"}
    /\ file_no' = Len(json_files) + 1
    /\ UNCHANGED <<json_files, operations, operations_by_name, loaded_count,
                   kb_pc, kb_call>>
    /\ UNCHANGED <<parse_vars, split_vars, main_vars>>

\* one iteration: the document is no dict, or has no "def" dict: continue
LoadFileInvalid ==
    /\ kb_pc = "loop"
    /\ file_no <= Len(json_files)
    /\ json_files[file_no].doc.shape \in {"not_dict", "no_def"}
    /\ file_no' = file_no + 1
    /\ UNCHANGED <<json_files, operations, operations_by_name, loaded_count,
                   kb_pc, kb_call>>
    /\ UNCHANGED <<parse_vars, split_vars, main_vars>>

\* one iteration: the document is stored under its id and its name
LoadFileStored ==
    /\ kb_pc = "loop"
    /\ file_no <= Len(json_files)
    /\ LET f == json_files[file_no]
       IN  /\ f.doc.shape = "new_format"
           /\ Hashable(OperationId(f))
           /\ Hashable(OperationName(f))
           /\ operations' = DictSet(operations, OperationId(f), OperationData(f))
           /\ operations_by_name' =
                  DictSet(operations_by_name, OperationName(f), OperationId(f))
    /\ loaded_count' = loaded_count + 1
    /\ file_no' = file_no + 1
    /\ UNCHANGED <<json_files, kb_pc, kb_call>>
    /\ UNCHANGED <<parse_vars, split_vars, main_vars>>

\* a plausible slip: the name index is written before the id index
LoadFileTypeErrorNameFirst ==
    /\ kb_pc = "loop"
    /\ file_no <= Len(json_files)
    /\ LET f == json_files[file_no]
       IN  /\ f.doc.shape = "new_format"
           /\ ~(Hashable(OperationId(f)) /\ Hashable(OperationName(f)))
           /\ operations_by_name' =
                  IF Hashable(OperationName(f))
                  THEN DictSet(operations_by_name, OperationName(f), OperationId(f))
                  ELSE operations_by_name
    /\ file_no' = file_no + 1
    /\ UNCHANGED <<json_files, operations, loaded_count, kb_pc, kb_call>>
    /\ UNCHANGED <<parse_vars, split_vars, main_vars>>

\* one iteration: storing raises TypeError (the id or the name is a list or
\* a dict), caught at line 78; an assignment made before the raise stays
LoadFileTypeError ==
    /\ kb_pc = "loop"
    /\ file_no <= Len(json_files)
    /\ LET f == json_files[file_no]
       IN  /\ f.doc.shape = "new_format"
           /\ ~(Hashable(OperationId(f)) /\ Hashable(OperationName(f)))
           /\ operations' =
                  IF Hashable(OperationId(f))
                  THEN DictSet(operations, OperationId(f), OperationData(f))
                  ELSE operations
    /\ file_no' = file_no + 1
    /\ UNCHANGED <<json_files, operations_by_name, loaded_count, kb_pc, kb_call>>
    /\ UNCHANGED <<parse_vars, split_vars, main_vars>>

\* a plausible slip: the check of loaded_count is missing
LoadEndNoCheck ==
    /\ kb_pc = "loop"
    /\ file_no > Len(json_files)
    /\ kb_pc' = "ready"
    /\ UNCHANGED <<json_files, file_no, operations, operations_by_name,
                   loaded_count, kb_call>>
    /\ UNCHANGED <<parse_vars, split_vars, main_vars>>

\* load, after the loop: no file loaded raises RuntimeError
LoadEnd ==
    /\ kb_pc = "loop"
    /\ file_no > Len(json_files)
    /\ kb_pc' = IF loaded_count = 0 THEN "RuntimeError" ELSE "ready"
    /\ UNCHANGED <<json_files, file_no, operations, operations_by_name,
                   loaded_count, kb_call>>
    /\ UNCHANGED <<parse_vars, split_vars, main_vars>>

\* get_operation_by_name(operation_name)
get_operation_by_name(operation_name) ==
    LET operation_id == DictGet(operations_by_name, operation_name, Falsy)
    IN  IF Truthy(operation_id) THEN DictGet(operations, operation_id, None)
        ELSE None

\* a call of get_operation_by_name on the loaded knowledge base
GetOperationByName ==
    /\ kb_pc = "ready"
    /\ pc \in {"idle", "ready"}
    /\ \E n \in QueryNames :
          kb_call' = [op |-> "get_operation_by_name", arg |-> n,
                      ret |-> get_operation_by_name(n)]
    /\ UNCHANGED <<json_files, file_no, operations, operations_by_name,
                   loaded_count, kb_pc>>
    /\ UNCHANGED <<parse_vars, split_vars, main_vars>>

\* a call of get_all_operation_ids on the loaded knowledge base
GetAllOperationIds ==
    /\ kb_pc = "ready"
    /\ pc \in {"idle", "ready"}
    /\ kb_call' = [op |-> "get_all_operation_ids", ret |-> DictKeys(operations)]
    /\ UNCHANGED <<json_files, file_no, operations, operations_by_name,
                   loaded_count, kb_pc>>
    /\ UNCHANGED <<parse_vars, split_vars, main_vars>>

\* get_operation_by_id(operation_id)
get_operation_by_id(operation_id) ==
    DictGet(operations, operation_id, None)

\* get_operation_by_name(n) or get_operation_by_id(n): a record is true
get_operation_info(operation_name) ==
    IF get_operation_by_name(operation_name) # None
    THEN get_operation_by_name(operation_name)
    ELSE get_operation_by_id(operation_name)

\* get_operation_steps(operation_name)
get_operation_steps(operation_name) ==
    LET operation == get_operation_info(operation_name)
    IN  IF operation # None THEN operation.def.substep ELSE None

\* get_current_main_step(operation_name)
get_current_main_step(operation_name) ==
    LET operation == get_operation_info(operation_name)
    IN  IF operation # None THEN operation.def.current_main_step ELSE None

RECURSIVE SearchItems(_, _)
\* the loop of search_related_operations over the items of self.operations
SearchItems(items, keyword_lower) ==
    IF items = <<>> THEN <<>>
    ELSE LET operation_id == Head(items).key
             operation_data == Head(items).value
             def_data == operation_data.def
             hit == \/ Contains(keyword_lower, Lower(NameText(def_data.operation)))
                    \/ Contains(keyword_lower, Lower(def_data.context))
                    \/ Contains(keyword_lower, Lower(def_data.scene))
         IN  (IF hit
              THEN <<[operation_id |-> operation_id,
                      operation_name |-> def_data.operation,
                      data |-> operation_data]>>
              ELSE <<>>)
             \o SearchItems(Tail(items), keyword_lower)

\* a plausible slip: the keyword is not lower-cased
search_case_sensitive(keyword) ==
    SearchItems(operations, keyword)

\* search_related_operations(keyword)
search_related_operations(keyword) ==
    SearchItems(operations, Lower(keyword))

\* get_all_operations(): list(set(...)), in no particular order
get_all_operations ==
    {operations[i].value.def.operation : i \in 1..Len(operations)} \ {Falsy}

RECURSIVE CategoryItems(_, _)
\* the loop of get_operations_by_category over self.operations.values()
CategoryItems(items, category_lower) ==
    IF items = <<>> THEN <<>>
    ELSE LET operation_data == Head(items).value
             def_data == operation_data.def
             hit == \/ Contains(category_lower, Lower(def_data.feature))
                    \/ Contains(category_lower, Lower(def_data.scene))
         IN  (IF hit THEN <<operation_data>> ELSE <<>>)
             \o CategoryItems(Tail(items), category_lower)

\* get_operations_by_category(category)
get_operations_by_category(category) ==
    CategoryItems(operations, Lower(category))

\* how many operations get_context reads
ContextOperations == 10

\* how many steps of an operation get_context previews
PreviewSteps == 3

\* the literals of get_context; each CJK character is one character
OperationLabel == <<"CAO", "ZUO", ":", " ">>

ContextLabel == <<"\n", "SHANG", "XIA", "WEN", ":", " ">>

PreviewLabel == <<"\n", "BU", "ZHOU", "YU", "LAN", ":", "\n">>

PreviewBullet == <<" ", " ", "-", " ">>

\* a plausible slip: two dots
EllipsisShort == <<".", ".">>

Ellipsis == <<".", ".", ".">>

RECURSIVE StepsPreview(_)
\* steps_preview, from the steps that are looked at
StepsPreview(steps) ==
    IF steps = <<>> THEN <<>>
    ELSE (IF Head(steps).is_dict /\ Head(steps).description # <<>>
          THEN <<PreviewBullet \o Head(steps).description>>
          ELSE <<>>)
         \o StepsPreview(Tail(steps))

\* context_item of one operation
ContextItem(operation_data) ==
    LET def_data == operation_data.def
        steps_preview == StepsPreview(Take(def_data.substep, PreviewSteps))
    IN  OperationLabel \o NameText(def_data.operation)
        \o (IF def_data.context # <<>> THEN ContextLabel \o def_data.context
            ELSE <<>>)
        \o (IF steps_preview # <<>>
            THEN PreviewLabel \o JoinWith(steps_preview, <<"\n">>)
            ELSE <<>>)

\* a plausible slip: every operation is read
JoinedContextOfAll ==
    JoinWith([i \in 1..Len(operations) |-> ContextItem(operations[i].value)],
             <<"\n", "\n">>)

\* "\n\n".join(context_parts)
JoinedContext ==
    LET values == Take(operations, ContextOperations)
    IN  JoinWith([i \in 1..Len(values) |-> ContextItem(values[i].value)],
                 <<"\n", "\n">>)

\* get_context(max_length), for max_length >= 0
get_context(max_length) ==
    IF Len(JoinedContext) > max_length
    THEN Take(JoinedContext, max_length) \o Ellipsis
    ELSE JoinedContext

\* a call of get_operation_by_id on the loaded knowledge base
GetOperationById ==
    /\ kb_pc = "ready"
    /\ pc \in {"idle", "ready"}
    /\ \E n \in QueryNames :
          kb_call' = [op |-> "get_operation_by_id", arg |-> n,
                      ret |-> get_operation_by_id(n)]
    /\ UNCHANGED <<json_files, file_no, operations, operations_by_name,
                   loaded_count, kb_pc>>
    /\ UNCHANGED <<parse_vars, split_vars, main_vars>>

\* a call of get_operation_steps on the loaded knowledge base
GetOperationSteps ==
    /\ kb_pc = "ready"
    /\ pc \in {"idle", "ready"}
    /\ \E n \in QueryNames :
          kb_call' = [op |-> "get_operation_steps", arg |-> n,
                      ret |-> get_operation_steps(n)]
    /\ UNCHANGED <<json_files, file_no, operations, operations_by_name,
                   loaded_count, kb_pc>>
    /\ UNCHANGED <<parse_vars, split_vars, main_vars>>

\* a call of get_current_main_step on the loaded knowledge base
GetCurrentMainStep ==
    /\ kb_pc = "ready"
    /\ pc \in {"idle", "ready"}
    /\ \E n \in QueryNames :
          kb_call' = [op |-> "get_current_main_step", arg |-> n,
                      ret |-> get_current_main_step(n)]
    /\ UNCHANGED <<json_files, file_no, operations, operations_by_name,
                   loaded_count, kb_pc>>
    /\ UNCHANGED <<parse_vars, split_vars, main_vars>>

\* a call of search_related_operations on the loaded knowledge base
SearchRelatedOperations ==
    /\ kb_pc = "ready"
    /\ pc \in {"idle", "ready"}
    /\ \E keyword \in Keywords :
          kb_call' = [op |-> "search_related_operations", arg |-> keyword,
                      ret |-> search_related_operations(keyword)]
    /\ UNCHANGED <<json_files, file_no, operations, operations_by_name,
                   loaded_count, kb_pc>>
    /\ UNCHANGED <<parse_vars, split_vars, main_vars>>

\* a call of get_all_operations on the loaded knowledge base
GetAllOperations ==
    /\ kb_pc = "ready"
    /\ pc \in {"idle", "ready"}
    /\ kb_call' = [op |-> "get_all_operations", ret |-> get_all_operations]
    /\ UNCHANGED <<json_files, file_no, operations, operations_by_name,
                   loaded_count, kb_pc>>
    /\ UNCHANGED <<parse_vars, split_vars, main_vars>>

\* a call of get_context on the loaded knowledge base, with a max_length
\* from 0 to one more than the length of the whole text
GetContext ==
    /\ kb_pc = "ready"
    /\ pc \in {"idle", "ready"}
    /\ \E max_length \in 0..(Len(JoinedContext) + 1) :
          kb_call' = [op |-> "get_context", arg |-> max_length,
                      ret |-> get_context(max_length)]
    /\ UNCHANGED <<json_files, file_no, operations, operations_by_name,
                   loaded_count, kb_pc>>
    /\ UNCHANGED <<parse_vars, split_vars, main_vars>>

\* a call of get_operations_by_category on the loaded knowledge base
GetOperationsByCategory ==
    /\ kb_pc = "ready"
    /\ pc \in {"idle", "ready"}
    /\ \E category \in Keywords :
          kb_call' = [op |-> "get_operations_by_category", arg |-> category,
                      ret |-> get_operations_by_category(category)]
    /\ UNCHANGED <<json_files, file_no, operations, operations_by_name,
                   loaded_count, kb_pc>>
    /\ UNCHANGED <<parse_vars, split_vars, main_vars>>

\* a knowledge base over a directory of documents with text and steps
InitQuery ==
    /\ json_files \in UNION {DirectoriesOf(QueryDocuments, n) : n \in 1..MaxFiles}
    /\ file_no = 0
    /\ operations = <<>>
    /\ operations_by_name = <<>>
    /\ loaded_count = 0
    /\ kb_pc = "load"
    /\ kb_call = [op |-> "none"]
    /\ ParseIdle
    /\ SplitIdle
    /\ MainIdle

NextQuery ==
    \/ LoadBegin
    \/ LoadFileStored
    \/ LoadEnd
    \/ GetOperationById
    \/ GetOperationByName
    \/ GetOperationSteps
    \/ GetCurrentMainStep
    \/ SearchRelatedOperations
    \/ GetAllOperations
    \/ GetAllOperationIds
    \/ GetContext
    \/ GetOperationsByCategory

SpecQuery == InitQuery /\ [][NextQuery]_vars

NextKB ==
    \/ LoadBegin
    \/ LoadFileDecodeError
    \/ LoadFileInvalid
    \/ LoadFileStored
    \/ LoadFileTypeError
    \/ LoadEnd
    \/ GetOperationByName
    \/ GetAllOperationIds

SpecKB == InitKB /\ [][NextKB]_vars

SpecParse == InitParse /\ [][NextParse]_vars

----------------------------------------------------------------------------
(* OperationSequenceSplitter: __init__, _build_prompt, split_to_new_format and
   split_to_new_format_file *)

\* the task block, lines 116-123, as one character
TaskBlock == <<"TASK_BLOCK">>

\* "\n\n" and the heading of the manual's digest, line 129
ManualHeading ==
    <<"\n", "\n", "[[", "CAO", "ZUO", "SHOU", "CE", "CAN", "KAO", "NEI",
      "RONG", "]]", "\n">>

\* "\n\n" and the heading of the operation to split, line 132
TargetHeading ==
    <<"\n", "\n", "[[", "DAI", "CHAI", "FEN", "DE", "CAO", "ZUO", "XU",
      "LIE", "]]", "\n">>

\* the output-format block, lines 135-149: three newlines, then the text as
\* one character
FormatBlock == <<"\n", "\n", "\n", "FORMAT_BLOCK">>

\* max_length of the digest in a prompt
PromptContextLength == 1500

\* a plausible slip: the digest is added whatever include_context says
build_prompt_always_context(operation, include) ==
    JoinWith(<<TaskBlock, ManualHeading \o get_context(PromptContextLength),
               TargetHeading \o operation, FormatBlock>>, <<"\n">>)

\* _build_prompt(operation_sequence, include_context)
build_prompt(operation, include) ==
    LET context == IF include THEN get_context(PromptContextLength) ELSE <<>>
        prompt_parts ==
            <<TaskBlock>>
            \o (IF include /\ context # <<>> THEN <<ManualHeading \o context>>
                ELSE <<>>)
            \o <<TargetHeading \o operation>>
            \o <<FormatBlock>>
    IN  JoinWith(prompt_parts, <<"\n">>)

\* a direct call of _build_prompt on the loaded knowledge base
BuildPrompt ==
    /\ kb_pc = "ready"
    /\ pc = "idle"
    /\ \E operation \in OperationTexts, include \in BOOLEAN :
          prompt' = [called |-> TRUE, operation_sequence |-> operation,
                     include_context |-> include,
                     text |-> build_prompt(operation, include)]
    /\ previous_prompt' = prompt
    /\ UNCHANGED <<path_kind, entry_point, include_context, output_filename,
                   generate_calls, now, record, previous_record, output_path, disk, written, main_vars>>
    /\ UNCHANGED <<parse_vars, kb_vars>>

\* KnowledgeBase.__init__, lines 21-32: the path is missing, is no directory,
\* or is a directory that load reads
KnowledgeBaseInit ==
    /\ kb_pc = "init"
    /\ kb_pc' = CASE path_kind = "missing" -> "FileNotFoundError"
                  [] path_kind = "file" -> "ValueError"
                  [] path_kind = "dir" -> "load"
    /\ UNCHANGED <<json_files, file_no, operations, operations_by_name,
                   loaded_count, kb_call>>
    /\ UNCHANGED <<parse_vars, split_vars, main_vars>>

\* a plausible slip: a failure of the knowledge base is swallowed
SplitterInitIgnoresFailure ==
    /\ kb_pc \in {"ready", "FileNotFoundError", "ValueError", "RuntimeError"}
    /\ pc = "idle"
    /\ \E created \in BOOLEAN : pc' = IF created THEN "ready" ELSE "init_failed"
    /\ UNCHANGED <<input_lines, text_result, operation_sequence, lines, line_no,
                   current_description, step_counter, substeps>>
    /\ UNCHANGED <<kb_vars, split_vars, main_vars>>

\* OperationSequenceSplitter.__init__ after the knowledge base is loaded,
\* lines 33-42: the client of the backend is created, or creating it raises
SplitterInit ==
    /\ kb_pc = "ready"
    /\ pc = "idle"
    /\ \E created \in BOOLEAN : pc' = IF created THEN "ready" ELSE "init_failed"
    /\ UNCHANGED <<input_lines, text_result, operation_sequence, lines, line_no,
                   current_description, step_counter, substeps>>
    /\ UNCHANGED <<kb_vars, split_vars, main_vars>>

\* values of output_filename given to split_to_new_format
SplitFilenames == {NoFilename, <<"r">>}

\* paths given to split_to_new_format_file
OutputPaths == {<<"d", "/", "r">> \o DotJson, <<"r">>}

\* the position of the last "/" of p, 0 when it has none
LastSlash(p) ==
    IF \E i \in 1..Len(p) : p[i] = "/"
    THEN CHOOSE i \in 1..Len(p) :
             p[i] = "/" /\ \A j \in (i + 1)..Len(p) : p[j] # "/"
    ELSE 0

\* Path(p).name
PathName(p) ==
    SubSeq(p, LastSlash(p) + 1, Len(p))

\* Path(p).parent
PathParent(p) ==
    IF LastSlash(p) = 0 THEN <<".">> ELSE SubSeq(p, 1, LastSlash(p) - 1)

\* split_to_new_format(operation, name, include), up to the call of generate
\* (line 62)
SplitToNewFormatCall(operation, name, include) ==
    /\ pc = "ready"
    /\ operation_sequence' = operation
    /\ output_filename' = name
    /\ include_context' = include
    /\ prompt' = [called |-> TRUE, operation_sequence |-> operation,
                  include_context |-> include,
                  text |-> build_prompt(operation, include)]
    /\ entry_point' = "split_to_new_format"
    /\ pc' = "generate"
    /\ kb_call' = [op |-> "none"]
    /\ UNCHANGED <<input_lines, text_result, lines, line_no, current_description,
                   step_counter, substeps>>
    /\ UNCHANGED <<path_kind, previous_prompt, generate_calls, now, record,
                   previous_record, output_path, disk, written>>
    /\ UNCHANGED <<json_files, file_no, operations, operations_by_name,
                   loaded_count, kb_pc>>

\* a caller calls split_to_new_format
SplitToNewFormat ==
    /\ generate_calls < MaxCalls
    /\ \E operation \in OperationTexts, name \in SplitFilenames, include \in BOOLEAN :
          SplitToNewFormatCall(operation, name, include)
    /\ UNCHANGED main_vars

\* a plausible slip: the output directory is made before the generation
SplitToNewFormatFileMkdirFirst ==
    /\ pc = "ready"
    /\ generate_calls < MaxCalls
    /\ \E operation \in OperationTexts, path \in OutputPaths, include \in BOOLEAN :
          /\ operation_sequence' = operation
          /\ output_path' = path
          /\ output_filename' = PathName(path)
          /\ include_context' = include
          /\ prompt' = [called |-> TRUE, operation_sequence |-> operation,
                        include_context |-> include,
                        text |-> build_prompt(operation, include)]
          /\ disk' = [disk EXCEPT !.dirs = @ \cup {PathParent(path)}]
    /\ entry_point' = "split_to_new_format_file"
    /\ pc' = "generate"
    /\ kb_call' = [op |-> "none"]
    /\ UNCHANGED <<input_lines, text_result, lines, line_no, current_description,
                   step_counter, substeps>>
    /\ UNCHANGED <<path_kind, previous_prompt, generate_calls, now, record,
                   previous_record, written, main_vars>>
    /\ UNCHANGED <<json_files, file_no, operations, operations_by_name,
                   loaded_count, kb_pc>>

\* split_to_new_format_file(operation, path, include), up to the call of
\* generate (lines 88-92, 62)
SplitToNewFormatFileCall(operation, path, include) ==
    /\ pc = "ready"
    /\ operation_sequence' = operation
    /\ output_path' = path
    /\ output_filename' = PathName(path)
    /\ include_context' = include
    /\ prompt' = [called |-> TRUE, operation_sequence |-> operation,
                  include_context |-> include,
                  text |-> build_prompt(operation, include)]
    /\ entry_point' = "split_to_new_format_file"
    /\ pc' = "generate"
    /\ kb_call' = [op |-> "none"]
    /\ UNCHANGED <<input_lines, text_result, lines, line_no, current_description,
                   step_counter, substeps>>
    /\ UNCHANGED <<path_kind, previous_prompt, generate_calls, now, record,
                   previous_record, disk, written>>
    /\ UNCHANGED <<json_files, file_no, operations, operations_by_name,
                   loaded_count, kb_pc>>

\* a caller calls split_to_new_format_file
SplitToNewFormatFile ==
    /\ generate_calls < MaxCalls
    /\ \E operation \in OperationTexts, path \in OutputPaths, include \in BOOLEAN :
          SplitToNewFormatFileCall(operation, path, include)
    /\ UNCHANGED main_vars

\* the texts the backend answers with
Responses ==
    {<< <<>> >>, <<BuZhou \o <<"1", ":", " ", "a">>, <<" ", "h", " ">>>>,
     <<BuZhou \o <<"1", ":", "\"", "\\">>>>}

\* line 65: llm_client.generate(prompt) returns a text
Generate ==
    /\ pc = "generate"
    /\ generate_calls' = generate_calls + 1
    /\ \E response \in Responses :
          /\ input_lines' = response
          /\ text_result' = JoinNL(response)
    /\ pc' = "call"
    /\ UNCHANGED <<operation_sequence, lines, line_no, current_description,
                   step_counter, substeps>>
    /\ UNCHANGED <<path_kind, entry_point, include_context, output_filename,
                   prompt, previous_prompt, now, record, previous_record,
                   output_path, disk, written, main_vars>>
    /\ UNCHANGED kb_vars

\* line 65: llm_client.generate(prompt) raises, and so does the split
GenerateRaises ==
    /\ pc = "generate"
    /\ generate_calls' = generate_calls + 1
    /\ pc' = "failed"
    /\ UNCHANGED <<input_lines, text_result, operation_sequence, lines, line_no,
                   current_description, step_counter, substeps>>
    /\ UNCHANGED <<path_kind, entry_point, include_context, output_filename,
                   prompt, previous_prompt, now, record, previous_record,
                   output_path, disk, written, main_vars>>
    /\ UNCHANGED kb_vars

\* a plausible slip: the characters are written as they are
JsonEscapeCharRaw(c) ==
    <<c>>

\* json.dump with ensure_ascii=False: one character of a str inside its
\* quotes
JsonEscapeChar(c) ==
    CASE c = "\"" -> <<"\\", "\"">>
      [] c = "\\" -> <<"\\", "\\">>
      [] c = "\n" -> <<"\\", "n">>
      [] c = "\r" -> <<"\\", "r">>
      [] c = "\t" -> <<"\\", "t">>
      [] OTHER -> <<c>>

RECURSIVE JsonEscape(_)
JsonEscape(s) ==
    IF s = <<>> THEN <<>> ELSE JsonEscapeChar(Head(s)) \o JsonEscape(Tail(s))

\* json.dump of a str: the token written to the file
JsonString(s) ==
    <<"\"">> \o JsonEscape(s) \o <<"\"">>

\* json.load: the character an escape stands for
JsonUnescapeChar(c) ==
    CASE c = "n" -> "\n"
      [] c = "r" -> "\r"
      [] c = "t" -> "\t"
      [] OTHER -> c

RECURSIVE JsonScan(_)
\* json.load: the characters of a str up to its closing quote
JsonScan(t) ==
    IF t = <<>> \/ Head(t) = "\"" THEN <<>>
    ELSE IF Head(t) = "\\" /\ Len(t) >= 2
         THEN <<JsonUnescapeChar(t[2])>> \o JsonScan(SubSeq(t, 3, Len(t)))
         ELSE <<Head(t)>> \o JsonScan(Tail(t))

\* json.load of a str token
JsonLoadString(t) ==
    JsonScan(Tail(t))

\* json.dump of one step dict; the literals of lines 189-190 have no
\* character that is escaped
JsonDumpStep(step) ==
    [subtype |-> step.subtype,
     description |-> JsonString(step.description),
     id |-> JsonString(step.id),
     type |-> step.type]

JsonLoadStep(step) ==
    [subtype |-> step.subtype,
     description |-> JsonLoadString(step.description),
     id |-> JsonLoadString(step.id),
     type |-> step.type]

\* json.dump(result_dict, f, ensure_ascii=False, indent=2): the tree of the
\* tokens written
JsonDump(r) ==
    [chunk_id |-> JsonString(r.chunk_id),
     def |-> [substep |-> [k \in 1..Len(r.def.substep) |->
                              JsonDumpStep(r.def.substep[k])],
              context |-> JsonString(r.def.context),
              current_main_step |->
                  [subtype |-> r.def.current_main_step.subtype,
                   description |-> JsonString(r.def.current_main_step.description),
                   id |-> r.def.current_main_step.id,
                   type |-> r.def.current_main_step.type],
              source |-> JsonString(r.def.source),
              id |-> JsonString(r.def.id),
              operation |-> JsonString(r.def.operation)],
     filename |-> JsonString(r.filename),
     from |-> r.from,
     meta_data |-> [source |-> JsonString(r.meta_data.source),
                    mtime |-> JsonString(r.meta_data.mtime)],
     uri |-> JsonString(r.uri)]

\* json.load(f): the dict read from the tokens of a file
JsonLoad(t) ==
    [chunk_id |-> JsonLoadString(t.chunk_id),
     def |-> [substep |-> [k \in 1..Len(t.def.substep) |->
                              JsonLoadStep(t.def.substep[k])],
              context |-> JsonLoadString(t.def.context),
              current_main_step |->
                  [subtype |-> t.def.current_main_step.subtype,
                   description |->
                       JsonLoadString(t.def.current_main_step.description),
                   id |-> t.def.current_main_step.id,
                   type |-> t.def.current_main_step.type],
              source |-> JsonLoadString(t.def.source),
              id |-> JsonLoadString(t.def.id),
              operation |-> JsonLoadString(t.def.operation)],
     filename |-> JsonLoadString(t.filename),
     from |-> t.from,
     meta_data |-> [source |-> JsonLoadString(t.meta_data.source),
                    mtime |-> JsonLoadString(t.meta_data.mtime)],
     uri |-> JsonLoadString(t.uri)]

\* the dict a reader gets from the file the call wrote
saved_data ==
    JsonLoad(written)

\* split_to_new_format_file, lines 95-99: the directory is made and the
\* record is written over what the file held
SaveFile ==
    /\ pc = "returned"
    /\ entry_point = "split_to_new_format_file"
    /\ disk' = [dirs |-> disk.dirs \cup {PathParent(output_path)},
                files |-> disk.files \cup {output_path}]
    /\ written' = JsonDump(record)
    /\ pc' = "saved"
    /\ UNCHANGED <<input_lines, text_result, operation_sequence, lines, line_no,
                   current_description, step_counter, substeps>>
    /\ UNCHANGED <<path_kind, entry_point, include_context, output_filename,
                   prompt, previous_prompt, generate_calls, now, record,
                   previous_record, output_path, main_vars>>
    /\ UNCHANGED kb_vars

\* the method returns: its arguments, its locals and its result are gone
SplitReturn ==
    /\ \/ pc = "returned" /\ entry_point = "split_to_new_format"
       \/ pc = "saved"
    /\ pc' = "ready"
    /\ input_lines' = <<>>
    /\ text_result' = <<>>
    /\ operation_sequence' = <<>>
    /\ lines' = <<>>
    /\ line_no' = 0
    /\ current_description' = <<>>
    /\ step_counter' = 0
    /\ substeps' = <<>>
    /\ entry_point' = "none"
    /\ include_context' = TRUE
    /\ output_filename' = NoFilename
    /\ output_path' = NoFilename
    /\ prompt' = NoPrompt
    /\ record' = [none |-> TRUE]
    /\ written' = NoText
    /\ UNCHANGED <<path_kind, previous_prompt, generate_calls, now,
                   previous_record, disk, main_vars>>
    /\ UNCHANGED kb_vars

\* the documents of the directories a splitter is constructed over
SessionDocuments ==
    {d \in Documents : d.shape = "decode_error"}
    \cup {d \in QueryDocuments : d.def_operation = "b" \/ d.top_id = "b"}

----------------------------------------------------------------------------
(* main.py, lines 117-183: the command *)

\* non-blank lines of a batch input file, stripped
BatchItems == {<<"o", "p">>, <<"q">>}

\* values of the option -o
OutputArgs == {NoFilename, <<"d">>}

\* the documents of the directory the command is run over
MainDocuments ==
    {d \in QueryDocuments : d.def_operation = "b"}

\* output_dir / f"output_{i:03d}.json"
BatchPath(i) ==
    args_output \o <<"/">> \o <<"o", "u", "t", "p", "u", "t", "_">> \o Pad3(i)
    \o DotJson

\* lines 118-125: constructing the splitter failed
MainInitFails ==
    /\ main_pc = "construct"
    /\ \/ pc = "init_failed"
       \/ kb_pc \in {"FileNotFoundError", "ValueError", "RuntimeError"}
    /\ main_pc' = "exit_1"
    /\ UNCHANGED <<args_output, operation_sequences, item_no>>
    /\ UNCHANGED <<parse_vars, kb_vars, split_vars>>

\* lines 128-137: the input is read, as the lines of a batch file or as one
\* text
MainReadInput ==
    /\ main_pc = "construct"
    /\ pc = "ready"
    /\ operation_sequences' \in
          SeqsUpTo(BatchItems, MaxItems) \cup {<<text>> : text \in OperationTexts}
    /\ main_pc' = "dispatch"
    /\ UNCHANGED <<args_output, item_no>>
    /\ UNCHANGED <<parse_vars, kb_vars, split_vars>>

\* lines 141-160: one operation string, written to a file or printed
MainSingle ==
    /\ main_pc = "dispatch"
    /\ Len(operation_sequences) = 1
    /\ \E include \in BOOLEAN :
          IF args_output # NoFilename
          THEN SplitToNewFormatFileCall(operation_sequences[1], args_output, include)
          ELSE SplitToNewFormatCall(operation_sequences[1], NoFilename, include)
    /\ main_pc' = "single"
    /\ UNCHANGED <<args_output, operation_sequences, item_no>>

\* lines 161-168: a batch needs the output directory, and makes it
MainBatchStart ==
    /\ main_pc = "dispatch"
    /\ Len(operation_sequences) # 1
    /\ IF args_output = NoFilename
       THEN /\ main_pc' = "exit_1"
            /\ UNCHANGED disk
       ELSE /\ main_pc' = "batch"
            /\ disk' = [disk EXCEPT !.dirs = @ \cup {args_output}]
    /\ UNCHANGED <<args_output, operation_sequences, item_no>>
    /\ UNCHANGED <<path_kind, entry_point, include_context, output_filename,
                   prompt, previous_prompt, generate_calls, now, record,
                   previous_record, output_path, written>>
    /\ UNCHANGED <<parse_vars, kb_vars>>

\* lines 170-177: the next item of the batch loop, up to the call of generate
MainBatchItem ==
    /\ main_pc = "batch"
    /\ item_no < Len(operation_sequences)
    /\ item_no' = item_no + 1
    /\ \E include \in BOOLEAN :
          SplitToNewFormatFileCall(operation_sequences[item_no + 1],
                                   BatchPath(item_no + 1), include)
    /\ UNCHANGED <<args_output, operation_sequences, main_pc>>

\* a plausible slip: a failed item is reported and the loop goes on
MainFailsAndGoesOn ==
    /\ main_pc \in {"single", "batch"}
    /\ pc = "failed"
    /\ pc' = "ready"
    /\ UNCHANGED <<input_lines, text_result, operation_sequence, lines, line_no,
                   current_description, step_counter, substeps>>
    /\ UNCHANGED <<kb_vars, split_vars, main_vars>>

\* lines 179-183: a failed split ends the command
MainFails ==
    /\ main_pc \in {"single", "batch"}
    /\ pc = "failed"
    /\ main_pc' = "exit_1"
    /\ UNCHANGED <<args_output, operation_sequences, item_no>>
    /\ UNCHANGED <<parse_vars, kb_vars, split_vars>>

\* the single split has returned, or the batch loop is over
MainEnd ==
    /\ \/ main_pc = "single"
       \/ main_pc = "batch" /\ item_no = Len(operation_sequences)
    /\ pc = "ready"
    /\ main_pc' = "done"
    /\ UNCHANGED <<args_output, operation_sequences, item_no>>
    /\ UNCHANGED <<parse_vars, kb_vars, split_vars>>

\* the command is started over an existing directory
InitMain ==
    /\ path_kind = "dir"
    /\ json_files \in UNION {DirectoriesOf(MainDocuments, n) : n \in 0..1}
    /\ file_no = 0
    /\ operations = <<>>
    /\ operations_by_name = <<>>
    /\ loaded_count = 0
    /\ kb_pc = "init"
    /\ kb_call = [op |-> "none"]
    /\ ParseIdle
    /\ entry_point = "none"
    /\ include_context = TRUE
    /\ output_filename = NoFilename
    /\ prompt = NoPrompt
    /\ previous_prompt = NoPrompt
    /\ generate_calls = 0
    /\ now \in ClockStarts
    /\ record = [none |-> TRUE]
    /\ previous_record = [none |-> TRUE]
    /\ output_path = NoFilename
    /\ disk = NoWrites
    /\ written = NoText
    /\ args_output \in OutputArgs
    /\ operation_sequences = <<>>
    /\ item_no = 0
    /\ main_pc = "construct"

NextMain ==
    \/ KnowledgeBaseInit
    \/ LoadBegin
    \/ LoadFileStored
    \/ LoadEnd
    \/ SplitterInit
    \/ MainInitFails
    \/ MainReadInput
    \/ MainSingle
    \/ MainBatchStart
    \/ MainBatchItem
    \/ Generate
    \/ GenerateRaises
    \/ ParseBegin
    \/ SkipBlank
    \/ StepStart
    \/ Continuation
    \/ ParseFinish
    \/ ParseReturn
    \/ SaveFile
    \/ SplitReturn
    \/ MainFails
    \/ MainEnd

SpecMain == InitMain /\ [][NextMain]_vars

\* the documents of a large directory, by position
ContextDocuments ==
    << [shape |-> "new_format", def_id |-> Falsy, top_id |-> Falsy,
        def_operation |-> "Ab", top_operation |-> Falsy,
        body |-> [context |-> <<>>, scene |-> <<>>, feature |-> <<>>,
                  substep |-> <<DocStep(<<"x">>), DocStep(<<"y">>),
                                DocStep(<<"z">>), DocStep(<<"w">>)>>,
                  current_main_step |-> DocStep(<<"x">>)]],
       [shape |-> "new_format", def_id |-> Falsy, top_id |-> Falsy,
        def_operation |-> "b", top_operation |-> Falsy,
        body |-> [context |-> <<>>, scene |-> <<>>, feature |-> <<>>,
                  substep |-> <<DocStep(<<>>), NonDictStep, DocStep(<<"y">>)>>,
                  current_main_step |-> None]],
       [shape |-> "new_format", def_id |-> Falsy, top_id |-> Falsy,
        def_operation |-> Falsy, top_operation |-> Falsy, body |-> NoBody] >>

\* how many files the large directories hold
ContextFileCounts == {9, 11}

\* a directory of many files, loaded and then asked for its digest
InitContext ==
    /\ json_files \in
          {[k \in 1..n |->
               [stem |-> StemNames[k],
                doc |-> ContextDocuments[((k + first) % Len(ContextDocuments)) + 1]]] :
             n \in ContextFileCounts, first \in 1..Len(ContextDocuments)}
    /\ file_no = 0
    /\ operations = <<>>
    /\ operations_by_name = <<>>
    /\ loaded_count = 0
    /\ kb_pc = "load"
    /\ kb_call = [op |-> "none"]
    /\ ParseIdle
    /\ SplitIdle
    /\ MainIdle

NextContext ==
    \/ LoadBegin
    \/ LoadFileStored
    \/ LoadEnd
    \/ GetContext

SpecContext == InitContext /\ [][NextContext]_vars

\* a splitter constructed over a path, then queried and called
InitSession ==
    /\ path_kind \in {"missing", "file", "dir"}
    /\ json_files \in IF path_kind = "dir"
                      THEN UNION {DirectoriesOf(SessionDocuments, n) : n \in 0..1}
                      ELSE {<<>>}
    /\ file_no = 0
    /\ operations = <<>>
    /\ operations_by_name = <<>>
    /\ loaded_count = 0
    /\ kb_pc = "init"
    /\ kb_call = [op |-> "none"]
    /\ ParseIdle
    /\ entry_point = "none"
    /\ include_context = TRUE
    /\ output_filename = NoFilename
    /\ prompt = NoPrompt
    /\ previous_prompt = NoPrompt
    /\ generate_calls = 0
    /\ now \in ClockStarts
    /\ record = [none |-> TRUE]
    /\ previous_record = [none |-> TRUE]
    /\ output_path = NoFilename
    /\ disk = NoWrites
    /\ written = NoText
    /\ MainIdle

NextSession ==
    \/ KnowledgeBaseInit
    \/ LoadBegin
    \/ LoadFileDecodeError
    \/ LoadFileStored
    \/ LoadEnd
    \/ SplitterInit
    \/ GetOperationById
    \/ GetOperationByName
    \/ GetOperationSteps
    \/ GetCurrentMainStep
    \/ SearchRelatedOperations
    \/ GetAllOperations
    \/ GetAllOperationIds
    \/ GetContext
    \/ GetOperationsByCategory
    \/ SplitToNewFormat
    \/ SplitToNewFormatFile
    \/ Generate
    \/ GenerateRaises
    \/ ParseBegin
    \/ SkipBlank
    \/ StepStart
    \/ Continuation
    \/ ParseFinish
    \/ ParseReturn
    \/ SaveFile
    \/ SplitReturn

SpecSession == InitSession /\ [][NextSession]_vars

\* a loaded knowledge base on which _build_prompt is called
InitPrompt ==
    /\ json_files \in UNION {DirectoriesOf(QueryDocuments, n) : n \in 1..MaxFiles}
    /\ file_no = 0
    /\ operations = <<>>
    /\ operations_by_name = <<>>
    /\ loaded_count = 0
    /\ kb_pc = "load"
    /\ kb_call = [op |-> "none"]
    /\ ParseIdle
    /\ SplitIdle
    /\ MainIdle

NextPrompt ==
    \/ LoadBegin
    \/ LoadFileStored
    \/ LoadEnd
    \/ BuildPrompt

SpecPrompt == InitPrompt /\ [][NextPrompt]_vars

----------------------------------------------------------------------------
(* Properties of _parse_to_new_format *)

\* s without its leading and trailing whitespace, written without recursion
ClaimTrim(s) ==
    IF \A i \in 1..Len(s) : s[i] \in WS THEN <<>>
    ELSE LET a == CHOOSE i \in 1..Len(s) :
                      s[i] \notin WS /\ \A j \in 1..(i - 1) : s[j] \in WS
             b == CHOOSE i \in 1..Len(s) :
                      s[i] \notin WS /\ \A j \in (i + 1)..Len(s) : s[j] \in WS
         IN  SubSeq(s, a, b)

\* a trimmed line begins with one of the step markers
ClaimMarker(l) ==
    \/ (Len(l) >= 2 /\ l[1] = "BU" /\ l[2] = "ZHOU")
    \/ (Len(l) >= 4 /\ l[1] = "S" /\ l[2] = "t" /\ l[3] = "e" /\ l[4] = "p")
    \/ (Len(l) >= 1 /\ l[1] \in {"0", "1", "2", "3", "4", "5", "6", "7", "8", "9"})

\* step_00k, for k < 10
ClaimStepId(k) ==
    <<"s", "t", "e", "p", "_", "0", "0", DigitChars[k + 1]>>

RECURSIVE ClaimJoinedLines(_)
\* the non-blank lines of ls, each trimmed, with one space between two of them
ClaimJoinedLines(ls) ==
    IF ls = <<>> THEN <<>>
    ELSE LET t == ClaimTrim(Head(ls))
             rest == ClaimJoinedLines(Tail(ls))
         IN  IF t = <<>> THEN rest
             ELSE IF rest = <<>> THEN t
             ELSE t \o <<" ">> \o rest

C1_FormInput ==
    /\ Len(input_lines) >= 1
    /\ \A k \in 1..Len(input_lines) : input_lines[k] \in FormLines

C1_DescOf(l) ==
    CHOOSE d \in Bodies : \E k \in StepNums : l = BuZhou \o k \o <<":", " ">> \o d

\* C1: a response of n >= 1 lines "<marker>k: d_k" yields exactly n step
\* records; the k-th has id step_00k and description d_k, in line order.
C1_StepFormLines ==
    (pc = "parsed" /\ C1_FormInput) =>
        /\ Len(substeps) = Len(input_lines)
        /\ \A k \in 1..Len(input_lines) :
              /\ substeps[k].id = ClaimStepId(k)
              /\ substeps[k].description = C1_DescOf(input_lines[k])

C1_Witness ==
    /\ pc = "parsed"
    /\ C1_FormInput
    /\ Len(input_lines) >= 2
    /\ C1_DescOf(input_lines[1]) = <<"d", ":", "e">>
    /\ C1_DescOf(input_lines[2]) = <<"b", " ", "c">>
    /\ Len(substeps) = Len(input_lines)

\* C2: every step record of the parsed result has a non-empty description,
\* for every response and every non-empty operation string.
C2_NonEmptyDescriptions ==
    (pc = "parsed" /\ operation_sequence # <<>>) =>
        \A k \in 1..Len(substeps) : substeps[k].description # <<>>

\* C3: the k-th emitted step record has id step_00k, whatever number the
\* response's markers carry; so the ids of one result are pairwise distinct.
C3_SequentialIds ==
    /\ \A k \in 1..Len(substeps) : substeps[k].id = ClaimStepId(k)
    /\ \A j, k \in 1..Len(substeps) : j # k => substeps[j].id # substeps[k].id

C3_Witness ==
    /\ pc = "parsed"
    /\ Len(input_lines) >= 2
    /\ input_lines[1] \in {BuZhou \o <<"2">> \o <<":", " ">> \o d : d \in Bodies}
    /\ input_lines[2] \in {BuZhou \o <<"2">> \o <<":", " ">> \o d : d \in Bodies}
    /\ Len(substeps) >= 2
    /\ substeps[1].id = ClaimStepId(1)
    /\ substeps[2].id = ClaimStepId(2)

\* the loop is at a non-blank line without marker while a step accumulates,
\* and moves past it
C4_ContinuationIter ==
    /\ pc = "loop"
    /\ line_no <= Len(lines)
    /\ line_no' = line_no + 1
    /\ ClaimTrim(lines[line_no]) # <<>>
    /\ ~ClaimMarker(ClaimTrim(lines[line_no]))
    /\ current_description # <<>>

\* C4 as stated: a line without marker after a started step creates no step
\* record, and the accumulating description becomes itself, one space, the
\* line's trimmed text.
C4_AppendedWithSpace ==
    [][C4_ContinuationIter =>
          /\ substeps' = substeps
          /\ AccDescription(current_description') =
                 AccDescription(current_description) \o <<" ">>
                     \o ClaimTrim(lines[line_no])]_vars

\* C4 amended: as above, but when the accumulating description is empty the
\* line's trimmed text becomes the description, without a leading space.
C4_AppendedTrimmed ==
    [][C4_ContinuationIter =>
          /\ substeps' = substeps
          /\ step_counter' = step_counter
          /\ AccDescription(current_description') =
                 IF AccDescription(current_description) = <<>>
                 THEN ClaimTrim(lines[line_no])
                 ELSE AccDescription(current_description) \o <<" ">>
                          \o ClaimTrim(lines[line_no])]_vars

C4_Witness ==
    /\ pc = "parsed"
    /\ Len(input_lines) = 2
    /\ input_lines[1] \in FormLines
    /\ Len(current_description) = 2
    /\ current_description[1] # <<>>
    /\ Len(substeps) = 1
    /\ substeps[1].description =
           current_description[1] \o <<" ">> \o current_description[2]

C5_BlankText ==
    \A i \in 1..Len(text_result) : text_result[i] \in WS

\* C5: an empty or whitespace-only response yields exactly one step record:
\* id step_001, type operation, subtype action, description the original
\* operation string.
C5_BlankResponseFallback ==
    (pc = "parsed" /\ C5_BlankText) =>
        substeps = <<[subtype |-> "action", description |-> operation_sequence,
                      id |-> ClaimStepId(1), type |-> "operation"]>>

C5_Witness ==
    /\ pc = "parsed"
    /\ C5_BlankText
    /\ Len(text_result) >= 3
    /\ operation_sequence = <<" ", "q">>
    /\ Len(substeps) = 1

C6_NoMarkerText ==
    /\ \E i \in 1..Len(text_result) : text_result[i] \notin WS
    /\ \A k \in 1..Len(input_lines) : ~ClaimMarker(ClaimTrim(input_lines[k]))

\* C6 as stated: a response with text but no step marker on any line yields
\* exactly one step record, id step_001, whose description is the trimmed raw
\* response text.
C6_NoMarkerTrimmedText ==
    (pc = "parsed" /\ C6_NoMarkerText) =>
        /\ Len(substeps) = 1
        /\ substeps[1].id = ClaimStepId(1)
        /\ substeps[1].description = ClaimTrim(text_result)

\* C6 amended: such a response yields exactly one step record, id step_001,
\* whose description is the response's non-blank lines, each trimmed, joined
\* by single spaces.
C6_NoMarkerJoinedLines ==
    (pc = "parsed" /\ C6_NoMarkerText) =>
        /\ Len(substeps) = 1
        /\ substeps[1].id = ClaimStepId(1)
        /\ substeps[1].type = "operation"
        /\ substeps[1].subtype = "action"
        /\ substeps[1].description = ClaimJoinedLines(input_lines)

C6_Witness ==
    /\ pc = "parsed"
    /\ C6_NoMarkerText
    /\ Len(input_lines) >= 2
    /\ ClaimTrim(input_lines[1]) # <<>>
    /\ ClaimTrim(input_lines[2]) # <<>>
    /\ Len(substeps) = 1
    /\ substeps[1].description # ClaimTrim(text_result)

----------------------------------------------------------------------------
(* Properties of KnowledgeBase.load and its queries *)

\* the file passes validation: it parses as JSON, is an object, and its
\* "def" value is an object
ClaimValid(f) ==
    f.doc.shape = "new_format"

\* definition-block id, else top-level id, else the file's base name
ClaimResolvedId(f) ==
    IF f.doc.def_id # Falsy THEN f.doc.def_id
    ELSE IF f.doc.top_id # Falsy THEN f.doc.top_id
    ELSE f.stem

\* definition-block operation, else top-level operation, else the resolved id
ClaimResolvedName(f) ==
    IF f.doc.def_operation # Falsy THEN f.doc.def_operation
    ELSE IF f.doc.top_operation # Falsy THEN f.doc.top_operation
    ELSE ClaimResolvedId(f)

\* the value can be the key of an index: it is no JSON array or object
ClaimKey(v) ==
    v # Unhashable

\* the file passes validation and both its resolved id and name can be keys
ClaimLoadable(f) ==
    ClaimValid(f) /\ ClaimKey(ClaimResolvedId(f)) /\ ClaimKey(ClaimResolvedName(f))

\* positions of the files the loop of load has gone past
ClaimProcessed ==
    {k \in 1..Len(json_files) : k < file_no}

\* load has returned or raised
ClaimLoadEnded ==
    kb_pc \in {"ready", "ValueError", "RuntimeError"}

\* the string operation ids a file of the directory can resolve to
ClaimOperationIds ==
    {StemNames[k] : k \in 1..MaxFiles} \cup ((DefIds \cup {t.id : t \in TopFields}) \ {Falsy, Unhashable})

\* C7 as stated: load succeeds if and only if at least one *.json file of the
\* directory passes validation.
C7_SucceedsIffValidFile ==
    ClaimLoadEnded =>
        (kb_pc = "ready" <=>
            \E k \in 1..Len(json_files) : ClaimValid(json_files[k]))

\* C7 amended: load succeeds if and only if at least one file is loaded, that
\* is, passes validation and has a resolved id and name that can be index
\* keys; with no JSON file it raises ValueError, otherwise RuntimeError.
C7_SucceedsIffFileLoaded ==
    ClaimLoadEnded =>
        /\ kb_pc = "ready" <=>
               \E k \in 1..Len(json_files) : ClaimLoadable(json_files[k])
        /\ kb_pc = "ValueError" <=> Len(json_files) = 0

C7_Witness ==
    /\ kb_pc = "ready"
    /\ \E k \in 1..Len(json_files) :
          ClaimValid(json_files[k]) /\ ~ClaimLoadable(json_files[k])
    /\ \E k \in 1..Len(json_files) : ClaimLoadable(json_files[k])

\* C8 as stated: a file that fails parsing or validation does not abort the
\* load, and after load the id index contains the resolved id of every valid
\* file.
C8_EveryValidFileIndexed ==
    kb_pc = "ready" =>
        /\ file_no = Len(json_files) + 1
        /\ \A k \in 1..Len(json_files) :
              ClaimValid(json_files[k]) =>
                  DictHas(operations, ClaimResolvedId(json_files[k]))

\* C8 amended: a file that fails parsing or validation does not abort the
\* load; every file is processed, and the id index contains the resolved id
\* of every valid file whose resolved id can be an index key.
C8_EveryKeyedValidFileIndexed ==
    /\ kb_pc \in {"ready", "RuntimeError"} => file_no = Len(json_files) + 1
    /\ \A k \in ClaimProcessed :
          (ClaimValid(json_files[k]) /\ ClaimKey(ClaimResolvedId(json_files[k]))) =>
              DictHas(operations, ClaimResolvedId(json_files[k]))

C8_Witness ==
    /\ kb_pc = "ready"
    /\ Len(json_files) >= 2
    /\ ~ClaimValid(json_files[1])
    /\ ClaimValid(json_files[2])
    /\ DictHas(operations, ClaimResolvedId(json_files[2]))

\* the valid files gone past that resolve to operation id i
C9_FilesOf(i) ==
    {k \in ClaimProcessed :
        ClaimValid(json_files[k]) /\ ClaimResolvedId(json_files[k]) = i}

C9_Last(F) ==
    CHOOSE k \in F : \A j \in F : j <= k

C10_FilesNamed(n) ==
    {k \in 1..Len(json_files) :
        ClaimValid(json_files[k]) /\ ClaimResolvedName(json_files[k]) = n}

\* C10: get_operation_by_name(n) returns the record loaded from the
\* last-processed valid file whose resolved operation name is n, and None
\* when no loaded file has that name.
C10_ByNameLastLoaded ==
    kb_call.op = "get_operation_by_name" =>
        LET F == C10_FilesNamed(kb_call.arg)
        IN  IF F = {}
            THEN kb_call.ret = None
            ELSE /\ kb_call.ret # None
                 /\ kb_call.ret._filename = FileName(json_files[C9_Last(F)])

\* the keys of a dict, as a set
ClaimKeySet(d) ==
    {d[i].key : i \in 1..Len(d)}

\* d2 is d1 with key k set to v and every other item as it was
ClaimSetOnly(d1, d2, k, v, default) ==
    /\ ClaimKeySet(d2) = ClaimKeySet(d1) \cup {k}
    /\ DictGet(d2, k, default) = v
    /\ \A j \in ClaimKeySet(d1) \ {k} : DictGet(d2, j, default) = DictGet(d1, j, default)
    /\ Len(d2) = Cardinality(ClaimKeySet(d2))

\* the loop of load goes past a file that passes validation
C11_ValidFileStep ==
    /\ kb_pc = "loop"
    /\ file_no <= Len(json_files)
    /\ file_no' = file_no + 1
    /\ ClaimValid(json_files[file_no])

\* C11 as stated: for each valid file, the id is the definition block's id,
\* else the top-level id, else the file's base name; the name is the
\* definition block's operation, else the top-level operation, else that id;
\* and the record is indexed under exactly these two keys.
C11_IndexedUnderResolvedKeys ==
    [][C11_ValidFileStep =>
          LET f == json_files[file_no]
          IN  /\ ClaimSetOnly(operations, operations', ClaimResolvedId(f),
                              OperationData(f), None)
              /\ ClaimSetOnly(operations_by_name, operations_by_name',
                              ClaimResolvedName(f), ClaimResolvedId(f), Falsy)]_vars

\* C11 amended: the same resolution, where a field counts only when it is
\* present and true in Python (not null, "", 0, [] or {}); a file whose
\* resolved id and name can both be index keys is indexed under exactly these
\* two keys; when the id is a JSON array or object neither index changes, and
\* when only the name is, the record is stored under its id alone.
C11_IndexedUnderHashableKeys ==
    [][C11_ValidFileStep =>
          LET f == json_files[file_no]
              id == ClaimResolvedId(f)
              nm == ClaimResolvedName(f)
          IN  /\ ClaimKey(id) =>
                     ClaimSetOnly(operations, operations', id, OperationData(f), None)
              /\ ~ClaimKey(id) => operations' = operations
              /\ (ClaimKey(id) /\ ClaimKey(nm)) =>
                     ClaimSetOnly(operations_by_name, operations_by_name', nm, id, Falsy)
              /\ ~(ClaimKey(id) /\ ClaimKey(nm)) =>
                     operations_by_name' = operations_by_name]_vars

\* three files' worth of resolution in two: the first takes its id from the
\* top level under its own name, the second falls back to its base name
C11_Witness ==
    /\ kb_pc = "ready"
    /\ Len(json_files) = 2
    /\ json_files[1].doc.shape = "new_format"
    /\ json_files[1].doc.def_id = Falsy
    /\ json_files[1].doc.top_id = "b"
    /\ json_files[1].doc.def_operation = "n"
    /\ json_files[2].doc.shape = "new_format"
    /\ json_files[2].doc.def_id = Falsy
    /\ json_files[2].doc.top_id = Falsy
    /\ json_files[2].doc.def_operation = Falsy
    /\ DictGet(operations, "b", None) = OperationData(json_files[1])
    /\ DictGet(operations_by_name, "n", Falsy) = "b"
    /\ DictGet(operations, "f2", None) = OperationData(json_files[2])
    /\ DictGet(operations_by_name, "f2", Falsy) = "f2"

----------------------------------------------------------------------------
(* Properties of the queries *)

\* the lower-cased keyword k occurs in the lower-cased text s
ClaimOccursIn(k, s) ==
    \E i \in 0..(Len(s) - Len(k)) :
        \A j \in 1..Len(k) : LowerChar(s[i + j]) = LowerChar(k[j])

\* the loaded record matches the keyword in its name, context or scene
ClaimMatches(k, data) ==
    \/ ClaimOccursIn(k, NameText(data.def.operation))
    \/ ClaimOccursIn(k, data.def.context)
    \/ ClaimOccursIn(k, data.def.scene)

C15_LengthAtMostMaxLength ==
    (kb_call.op = "get_context") => Len(kb_call.ret) <= kb_call.arg

\* C16: if the assembled text is longer than max_length, get_context returns
\* exactly its first max_length characters followed by "..."; otherwise it
\* returns the assembled text unchanged, with no marker.
C16_CutWithEllipsis ==
    (kb_call.op = "get_context") =>
        LET max_length == kb_call.arg
        IN  IF Len(JoinedContext) > max_length
            THEN kb_call.ret = [i \in 1..max_length |-> JoinedContext[i]]
                                   \o <<".", ".", ".">>
            ELSE kb_call.ret = JoinedContext

\* a text of two operations cut inside its first line
C16_Witness ==
    /\ kb_call.op = "get_context"
    /\ Len(operations) = 2
    /\ kb_call.arg = 5
    /\ Len(JoinedContext) > 5
    /\ kb_call.ret = <<"CAO", "ZUO", ":", " ", "A", ".", ".", ".">>

----------------------------------------------------------------------------
(* Properties of the generated record *)

\* C18: two calls of _parse_to_new_format with the same response text and the
\* same operation string return 'substep' sequences of the same length, with
\* the same description and the same step id at every position.
C18_SameSubsteps ==
    (pc = "returned" /\ previous_record # [none |-> TRUE]) =>
        LET first == previous_record.def.substep
            second == record.def.substep
        IN  /\ Len(first) = Len(second)
            /\ \A k \in 1..Len(first) :
                  /\ first[k].description = second[k].description
                  /\ first[k].id = second[k].id

\* two calls a second apart: two steps each, and different chunk ids
C18_Witness ==
    /\ pc = "returned"
    /\ previous_record # [none |-> TRUE]
    /\ Len(record.def.substep) = 2
    /\ Len(previous_record.def.substep) = 2
    /\ record.chunk_id # previous_record.chunk_id

\* the text ends with ".json"
ClaimEndsWithJson(s) ==
    /\ Len(s) >= 5
    /\ s[Len(s) - 4] = "."
    /\ s[Len(s) - 3] = "j"
    /\ s[Len(s) - 2] = "s"
    /\ s[Len(s) - 1] = "o"
    /\ s[Len(s)] = "n"

\* "output_" followed by the date and time of some second of the run
ClaimDefaultNames ==
    {<<"o", "u", "t", "p", "u", "t", "_">> \o StrftimeUnderscore(t) \o
         <<".", "j", "s", "o", "n">> :
             t \in {u \in 0..ClockEnd : \E c \in ClockStarts : c <= u}}

\* C19: in every generated record the filename ends with '.json': a supplied
\* name that already ends with '.json' is used unchanged, any other supplied
\* name gets '.json' appended exactly once, a missing name is replaced by a
\* time-derived default; filename, def.source and meta_data.source are equal
\* and uri is 'file:///' followed by that name.
C19_FilenameEndsWithJson ==
    (pc = "returned") =>
        /\ ClaimEndsWithJson(record.filename)
        /\ (output_filename # NoFilename /\ ClaimEndsWithJson(output_filename)) =>
               record.filename = output_filename
        /\ (output_filename # NoFilename /\ ~ClaimEndsWithJson(output_filename)) =>
               record.filename = output_filename \o <<".", "j", "s", "o", "n">>
        /\ (output_filename = NoFilename) => record.filename \in ClaimDefaultNames
        /\ record.def.source = record.filename
        /\ record.meta_data.source = record.filename
        /\ record.uri = <<"f", "i", "l", "e", ":", "/", "/", "/">> \o record.filename

\* the supplied name "r" became "r.json"
C19_Witness ==
    /\ pc = "returned"
    /\ output_filename = <<"r">>
    /\ record.filename = <<"r", ".", "j", "s", "o", "n">>
    /\ record.uri = <<"f", "i", "l", "e", ":", "/", "/", "/", "r", ".", "j", "s", "o", "n">>

\* C20: def.current_main_step.description and def.operation are the input
\* operation text when it is not empty and the placeholder when it is; the
\* main step has id 'main_step_001', type 'main_operation', subtype 'main'.
C20_MainStep ==
    (pc = "returned") =>
        LET expected == IF Len(operation_sequence) > 0 THEN operation_sequence
                        ELSE <<"CAO", "ZUO", "XU", "LIE">>
            main == record.def.current_main_step
        IN  /\ main.description = expected
            /\ record.def.operation = expected
            /\ main.id = "main_step_001"
            /\ main.type = "main_operation"
            /\ main.subtype = "main"

\* a record made from the empty operation text
C20_Witness ==
    /\ pc = "returned"
    /\ operation_sequence = <<>>
    /\ record.def.operation = <<"CAO", "ZUO", "XU", "LIE">>
    /\ record.def.context = <<>>

----------------------------------------------------------------------------
(* Properties of the splitter over its knowledge base *)

\* C13: once the knowledge base is constructed, no query and no split changes
\* the id index or the name index, and no generated record is among the
\* records of the id index.
C13_IndexesUnchanged ==
    [][(kb_pc = "ready") =>
          /\ operations' = operations
          /\ operations_by_name' = operations_by_name
          /\ \A i \in 1..Len(operations') : operations'[i].value # record']_vars

\* a search made after one split wrote its file and another returned
C13_Witness ==
    /\ kb_pc = "ready"
    /\ generate_calls = 2
    /\ disk.files # {}
    /\ kb_call.op = "search_related_operations"
    /\ Len(operations) = 1

\* the path is missing, is no directory, holds no JSON file or no valid file
C14_NoKnowledgeBase ==
    \/ path_kind # "dir"
    \/ json_files = <<>>
    \/ \A k \in 1..Len(json_files) : ~ClaimValid(json_files[k])

ClaimPromptText(operation, include) ==
    LET digest == get_context(PromptContextLength)
    IN  <<"TASK_BLOCK", "\n">>
        \o (IF include /\ Len(digest) > 0
            THEN ManualHeading \o digest \o <<"\n">>
            ELSE <<>>)
        \o TargetHeading \o operation \o <<"\n">>
        \o <<"\n", "\n", "\n", "FORMAT_BLOCK">>

\* C17: _build_prompt returns the task block, the digest (only if
\* include_context is true and the digest is not empty), the operation text
\* and the output-format block, in this order; two calls with the same
\* operation text and the same flag return the same string.
C17_PromptOrderedAndRepeatable ==
    prompt.called =>
        /\ prompt.text = ClaimPromptText(prompt.operation_sequence,
                                         prompt.include_context)
        /\ (/\ previous_prompt.called
            /\ previous_prompt.operation_sequence = prompt.operation_sequence
            /\ previous_prompt.include_context = prompt.include_context) =>
               previous_prompt.text = prompt.text

\* two calls with the same arguments, the digest included
C17_Witness ==
    /\ prompt.called
    /\ previous_prompt.called
    /\ prompt.include_context
    /\ previous_prompt.include_context
    /\ prompt.operation_sequence = <<"o", "p">>
    /\ previous_prompt.operation_sequence = <<"o", "p">>
    /\ Len(operations) = 2
    /\ Len(prompt.text) > Len(TargetHeading) + 10

----------------------------------------------------------------------------
(* Further properties of _parse_to_new_format *)

\* the text after the first ":" of l, trimmed; l itself when it has no ":"
ClaimAfterFirstColon(l) ==
    IF \E i \in 1..Len(l) : l[i] = ":"
    THEN LET first == CHOOSE i \in 1..Len(l) :
                          l[i] = ":" /\ \A j \in 1..(i - 1) : l[j] # ":"
         IN  ClaimTrim([k \in 1..(Len(l) - first) |-> l[first + k]])
    ELSE l

\* C24: for a step-start line the initial description is the trimmed text
\* after the first ASCII colon when the line has one (later colons stay), and
\* the whole stripped line when it has none.
C24_InitialDescription ==
    [][(/\ pc = "loop"
        /\ line_no <= Len(lines)
        /\ line_no' = line_no + 1
        /\ ClaimTrim(lines[line_no]) # <<>>
        /\ ClaimMarker(ClaimTrim(lines[line_no]))) =>
          current_description' = <<ClaimAfterFirstColon(ClaimTrim(lines[line_no]))>>]_vars

\* a step-start line with two colons has just been read
C24_Witness ==
    /\ pc = "loop"
    /\ line_no = 2
    /\ lines[1] = <<"BU", "ZHOU", "1", ":", " ", "d", ":", "e">>
    /\ current_description = << <<"d", ":", "e">> >>

\* the lines of the response that are not blank
ClaimNonBlank ==
    {k \in 1..Len(input_lines) : ClaimTrim(input_lines[k]) # <<>>}

\* the lines of the response that start a step
ClaimStepStarts ==
    {k \in ClaimNonBlank : ClaimMarker(ClaimTrim(input_lines[k]))}

\* C26: for a response with at least one non-blank line the number of step
\* records is the number of step-start lines, plus one if the first non-blank
\* line is no step-start line; it is at least 1 and at most the number of
\* non-blank lines; a response without a non-blank line gives the one
\* fallback step.
C26_StepCount ==
    (pc = "parsed") =>
        IF ClaimNonBlank # {}
        THEN LET first == CHOOSE k \in ClaimNonBlank :
                              \A j \in ClaimNonBlank : k <= j
                 extra == IF first \in ClaimStepStarts THEN 0 ELSE 1
             IN  /\ Len(substeps) = Cardinality(ClaimStepStarts) + extra
                 /\ Len(substeps) >= 1
                 /\ Len(substeps) <= Cardinality(ClaimNonBlank)
        ELSE /\ Len(substeps) = 1
             /\ substeps[1].description =
                    (IF ClaimTrim(text_result) # <<>> THEN ClaimTrim(text_result)
                     ELSE operation_sequence)

\* an unmarked first line followed by two step-start lines: three steps
C26_Witness ==
    /\ pc = "parsed"
    /\ Len(input_lines) = 3
    /\ ClaimNonBlank = {1, 2, 3}
    /\ ClaimStepStarts = {2, 3}
    /\ Len(substeps) = 3

----------------------------------------------------------------------------
(* Further properties of KnowledgeBase.load *)

\* C27: after each file load processes, every operation id stored as a value
\* in the name index is a key of the id index, so a name found in the name
\* index resolves to a record.
C27_NameIndexRefersToIds ==
    \A i \in 1..Len(operations_by_name) :
        /\ \E j \in 1..Len(operations) :
              operations[j].key = operations_by_name[i].value
        /\ get_operation_by_name(operations_by_name[i].key) # None

\* a lookup by name on a knowledge base that also holds a record stored
\* without a name
C27_Witness ==
    /\ kb_pc = "ready"
    /\ kb_call.op = "get_operation_by_name"
    /\ kb_call.ret # None
    /\ Len(operations) = 2
    /\ Len(operations_by_name) = 1
    /\ \E k \in 1..Len(json_files) :
          ClaimValid(json_files[k]) /\ ~ClaimLoadable(json_files[k])

\* the loop of load goes past a file it reports as skipped
C28_SkippedFileStep ==
    /\ kb_pc = "loop"
    /\ file_no <= Len(json_files)
    /\ file_no' = file_no + 1
    /\ ~ClaimLoadable(json_files[file_no])

\* C28: a file that load reports as skipped, for any failure caught while it
\* is processed, leaves the id index and the name index as they were before
\* it, and is not counted as loaded.
C28_SkippedFileLeavesIndexes ==
    [][C28_SkippedFileStep =>
          /\ operations' = operations
          /\ operations_by_name' = operations_by_name
          /\ loaded_count' = loaded_count]_vars

----------------------------------------------------------------------------
(* The clock-derived fields of the generated record *)

\* the seconds the clock can show in a run
ClaimSeconds ==
    {u \in 0..ClockEnd : \E c \in ClockStarts : c <= u}

\* the second written in mtime, the first clock read of a call
ClaimStartedAt(r, u) ==
    r.meta_data.mtime = StrftimeIso(u)

\* the second written in def.id, the last clock read of a call
ClaimEndedAt(r, u) ==
    r.def.id = <<"o", "p", "e", "r", "a", "t", "i", "o", "n", "_">>
                  \o StrftimeCompact(u)

\* the second call was made wholly after the second in which the first one
\* ended
ClaimLaterSecond ==
    \E a, b \in ClaimSeconds :
        /\ a < b
        /\ ClaimEndedAt(previous_record, a)
        /\ ClaimStartedAt(record, b)

\* C22: two records produced by _parse_to_new_format at different seconds of
\* the clock never have the same chunk_id or the same def.id.
C22_DifferentSecondsDifferentIds ==
    (pc = "returned" /\ previous_record # [none |-> TRUE] /\ ClaimLaterSecond) =>
        /\ record.chunk_id # previous_record.chunk_id
        /\ record.def.id # previous_record.def.id

\* two records of the same call, the second made one second after the first
C22_Witness ==
    /\ pc = "returned"
    /\ previous_record # [none |-> TRUE]
    /\ ClaimLaterSecond
    /\ record.def.substep = previous_record.def.substep
    /\ record.def.substep # <<>>

\* C29: within one generated record the timestamps in chunk_id, in def.id,
\* in meta_data.mtime and in a defaulted filename are the same second, even
\* when the clock advances while the record is assembled.
C29_OneInstant ==
    (pc = "returned") =>
        \E u \in ClaimSeconds :
            /\ record.chunk_id =
                  <<"c", "h", "u", "n", "k", "_">> \o StrftimeCompact(u)
            /\ ClaimEndedAt(record, u)
            /\ ClaimStartedAt(record, u)
            /\ (output_filename = NoFilename) =>
                  record.filename =
                      <<"o", "u", "t", "p", "u", "t", "_">>
                         \o StrftimeUnderscore(u) \o DotJson

----------------------------------------------------------------------------
(* split_to_new_format_file and the file system *)

\* the descriptions of a sequence of steps, in order
ClaimDescriptions(steps) ==
    [k \in 1..Len(steps) |-> steps[k].description]

\* C21: the record read back from the file split_to_new_format_file wrote
\* has the same number of steps, the same step descriptions in the same
\* order and the same main-step description as the record assembled.
C21_RoundTrip ==
    (pc = "saved") =>
        /\ Len(saved_data.def.substep) = Len(record.def.substep)
        /\ ClaimDescriptions(saved_data.def.substep)
              = ClaimDescriptions(record.def.substep)
        /\ saved_data.def.current_main_step.description
              = record.def.current_main_step.description

\* a written record whose step description holds a quote and a backslash
C21_Witness ==
    /\ pc = "saved"
    /\ Len(record.def.substep) = 1
    /\ record.def.substep[1].description = <<"\"", "\\">>
    /\ output_path \in disk.files

\* C30: when the generation backend fails during split_to_new_format_file,
\* the call ends with that one failure and the file system is as it was: no
\* directory is made and no file is created or written over.
C30_FailureLeavesDisk ==
    [][(/\ entry_point' = "split_to_new_format_file"
        /\ pc \in {"ready", "generate"}
        /\ pc' \in {"generate", "failed"}) =>
          /\ disk' = disk
          /\ written' = written]_vars

\* the backend fails on a path that an earlier call wrote
C30_Witness ==
    /\ pc = "failed"
    /\ entry_point = "split_to_new_format_file"
    /\ output_path \in disk.files
    /\ generate_calls = 2

----------------------------------------------------------------------------
(* The digest of get_context *)

RECURSIVE ClaimSplitOn(_, _)
\* the pieces of s between the occurrences of sep
ClaimSplitOn(s, sep) ==
    LET hits == {i \in 1..(Len(s) - Len(sep) + 1) :
                    SubSeq(s, i, i + Len(sep) - 1) = sep}
    IN  IF hits = {} THEN <<s>>
        ELSE LET i == CHOOSE h \in hits : \A g \in hits : h <= g
             IN  <<SubSeq(s, 1, i - 1)>>
                 \o ClaimSplitOn(SubSeq(s, i + Len(sep), Len(s)), sep)

\* the blocks of a digest: the pieces between blank lines
ClaimBlocks(text) ==
    IF text = <<>> THEN <<>> ELSE ClaimSplitOn(text, <<"\n", "\n">>)

\* a line of a block that previews a step
ClaimIsBullet(l) ==
    Len(l) >= 4 /\ SubSeq(l, 1, 4) = <<" ", " ", "-", " ">>

\* the step descriptions a block previews, in the order of its lines
ClaimPreviewed(block) ==
    LET bullets == SelectSeq(ClaimSplitOn(block, <<"\n">>), ClaimIsBullet)
    IN  [i \in 1..Len(bullets) |-> SubSeq(bullets[i], 5, Len(bullets[i]))]

\* the texts of sub are descriptions of steps of steps, in the same order
ClaimInSourceOrder(sub, steps) ==
    \E at \in [1..Len(sub) -> 1..Len(steps)] :
        /\ \A i, j \in 1..Len(sub) : i < j => at[i] < at[j]
        /\ \A i \in 1..Len(sub) :
              steps[at[i]].is_dict /\ steps[at[i]].description = sub[i]

\* C25: the digest of get_context has one block for each of at most the first
\* 10 records of the id index, in its order; the blocks are separated by one
\* blank line; each block previews at most 3 step descriptions, taken in
\* source order from the steps of its record.
C25_DigestBlocks ==
    (kb_call.op = "get_context" /\ Len(kb_call.ret) <= kb_call.arg) =>
        LET blocks == ClaimBlocks(kb_call.ret)
        IN  /\ Len(blocks) = IF Len(operations) < 10 THEN Len(operations) ELSE 10
            /\ \A k \in 1..Len(blocks) :
                  LET def_data == operations[k].value.def
                  IN  /\ Head(ClaimSplitOn(blocks[k], <<"\n">>))
                            = <<"CAO", "ZUO", ":", " ">>
                                 \o (IF def_data.operation = Falsy THEN <<>>
                                     ELSE NameChars[def_data.operation])
                      /\ Len(ClaimPreviewed(blocks[k])) <= 3
                      /\ ClaimInSourceOrder(ClaimPreviewed(blocks[k]),
                                            def_data.substep)

\* the whole digest of eleven records, with a block of three previews
C25_Witness ==
    /\ kb_call.op = "get_context"
    /\ Len(kb_call.ret) <= kb_call.arg
    /\ Len(operations) = 11
    /\ Len(ClaimBlocks(kb_call.ret)) = 10
    /\ ClaimPreviewed(ClaimBlocks(kb_call.ret)[10])
          = << <<"x">>, <<"y">>, <<"z">> >>
    /\ Len(operations[10].value.def.substep) = 4

----------------------------------------------------------------------------
(* The batch loop of main *)

\* the command runs the batch branch
ClaimIsBatch ==
    main_pc \in {"batch", "exit_1", "done"} /\ Len(operation_sequences) # 1

\* the path of the output of item k, for k < 1000
ClaimOutput(k) ==
    args_output
    \o <<"/", "o", "u", "t", "p", "u", "t", "_",
         DigitChars[(k \div 100) + 1], DigitChars[((k \div 10) % 10) + 1],
         DigitChars[(k % 10) + 1]>>
    \o <<".", "j", "s", "o", "n">>

\* the outputs of the items 1 .. k
ClaimOutputs(k) ==
    {ClaimOutput(j) : j \in 1..k}

\* C23: the batch loop handles the operation strings one after another in
\* input order and writes output_{i:03d}.json of item i before the generation
\* call of item i+1; the written outputs are always those of a prefix of the
\* input, and after a failed item nothing more is sent to the backend or
\* written.
C23_BatchInOrder ==
    /\ [](ClaimIsBatch =>
             \E k \in 0..Len(operation_sequences) : disk.files = ClaimOutputs(k))
    /\ [][(ClaimIsBatch /\ generate_calls' # generate_calls) =>
             /\ generate_calls' = item_no
             /\ prompt.operation_sequence = operation_sequences[item_no]
             /\ disk.files = ClaimOutputs(item_no - 1)]_vars
    /\ [][(ClaimIsBatch /\ pc = "failed") =>
             /\ generate_calls' = generate_calls
             /\ item_no' = item_no
             /\ disk' = disk]_vars

\* a batch of three items ended by the failure of its second item
C23_Witness ==
    /\ main_pc = "exit_1"
    /\ pc = "failed"
    /\ Len(operation_sequences) = 3
    /\ item_no = 2
    /\ generate_calls = 2
    /\ disk.files = {ClaimOutput(1)}

====
